---- MODULE Spec2Model ----
(***************************************************************************)
(* A model of the deepthink gateway: the blocking handler chat, the        *)
(* streaming handler chat_stream with its background task and its mpsc     *)
(* channel, the DeepSeek and OpenAI adapters and the <think> extractor.    *)
(*                                                                         *)
(* Text is a sequence of one-character strings where the code looks at     *)
(* characters (the markers, whitespace) and of opaque atoms elsewhere.     *)
(* Option<T> is a sequence of length 0 (None) or 1 (Some).                 *)
(***************************************************************************)
EXTENDS Naturals, Integers, Sequences, FiniteSets, TLC

\* Bounds of the model.
MaxReasoningChunks == 2
MaxTargetChunks == 2
MaxFeedChunks == 3
MaxNetChunks == 3
MaxPressureChunks == 51

\* tokio::sync::mpsc::channel(100)
ChannelCapacity == 100

------------------------------------------------------------------------------
\* Option<T>

None == <<>>

Some(v) == <<v>>

IsSome(o) == o # <<>>

Unwrap(o) == o[1]

------------------------------------------------------------------------------
\* str operations

IsWhitespace(c) == c \in {" ", "\n"}

OccursAt(s, p, i) == i + Len(p) <= Len(s) /\ SubSeq(s, i + 1, i + Len(p)) = p

\* str::contains
Contains(s, p) == \E i \in 0..Len(s) : OccursAt(s, p, i)

\* str::find: the byte offset of the first match
Find(s, p) ==
  IF Contains(s, p)
    THEN Some(CHOOSE i \in 0..Len(s) :
                /\ OccursAt(s, p, i)
                /\ \A j \in 0..Len(s) : OccursAt(s, p, j) => i <= j)
    ELSE None

StartsWith(s, p) == OccursAt(s, p, 0)

EndsWith(s, p) == Len(p) <= Len(s) /\ OccursAt(s, p, Len(s) - Len(p))

\* str::trim
Trim(s) ==
  LET keep == {i \in 1..Len(s) : ~IsWhitespace(s[i])}
  IN IF keep = {} THEN <<>>
     ELSE LET first == CHOOSE i \in keep : \A j \in keep : i <= j
              last == CHOOSE i \in keep : \A j \in keep : j <= i
          IN SubSeq(s, first, last)

\* "<think>" and "</think>"
ThinkOpen == <<"<", "t", "h", "i", "n", "k", ">">>

ThinkClose == <<"<", "/", "t", "h", "i", "n", "k", ">">>

\* "<thinking>" and "</thinking>", never scanned for: one atom each
ThinkingOpen == <<"<thinking>">>

ThinkingClose == <<"</thinking>">>

NL == <<"\n">>

------------------------------------------------------------------------------
\* clients/deepseek.rs: the extractor and process_ollama_content

ExtractThinkContent(content) ==
  LET think_start == Find(content, ThinkOpen)
      think_end == Find(content, ThinkClose)
  IN IF ~IsSome(think_start) \/ ~IsSome(think_end) THEN None
     ELSE IF Unwrap(think_start) >= Unwrap(think_end) THEN None
     ELSE Some([reasoning |->
                  Trim(SubSeq(content, Unwrap(think_start) + 7 + 1, Unwrap(think_end))),
                cleaned |->
                  Trim(SubSeq(content, 1, Unwrap(think_start))
                       \o SubSeq(content, Unwrap(think_end) + 8 + 1, Len(content)))])

\* AssistantMessage::process_ollama_content and StreamDelta::process_ollama_content
\* (the same body): m is [content, reasoning_content], both Option<text>
ProcessOllamaContent(m, is_ollama) ==
  IF ~is_ollama THEN m
  ELSE IF IsSome(m.content) /\ IsSome(ExtractThinkContent(Unwrap(m.content)))
    THEN [m EXCEPT !.reasoning_content =
                     Some(Unwrap(ExtractThinkContent(Unwrap(m.content))).reasoning),
                   !.content =
                     Some(Unwrap(ExtractThinkContent(Unwrap(m.content))).cleaned)]
    ELSE m

\* DeepSeekResponse::process_ollama_content: choices are [message]
ResponseProcessOllama(r) ==
  [r EXCEPT !.choices =
     [i \in 1..Len(r.choices) |->
        [message |-> ProcessOllamaContent(r.choices[i].message,
                                          r.system_fingerprint = "fp_ollama")]]]

\* StreamChoice::process_ollama_content and StreamResponse::process_ollama_content:
\* choices are [message: Option, delta: Option]
StreamProcessOllama(r) ==
  LET is_ollama == r.system_fingerprint = "fp_ollama"
      opt(o) == IF IsSome(o) THEN Some(ProcessOllamaContent(Unwrap(o), is_ollama)) ELSE o
  IN [r EXCEPT !.choices =
        [i \in 1..Len(r.choices) |->
           IF is_ollama
             THEN [message |-> opt(r.choices[i].message), delta |-> opt(r.choices[i].delta)]
             ELSE r.choices[i]]]

------------------------------------------------------------------------------
\* The request: models::ApiRequest and the token and routing headers

Message(role, content) == [role |-> role, content |-> content]

\* The role sequences of the callers' message lists.
RoleLists ==
  { <<"user">>,
    <<"system", "user">>,
    <<"user", "assistant", "user">>,
    <<"user", "system", "assistant">>,
    <<"system", "system">> }

MessageAtoms == <<"m1", "m2", "m3">>

MessagesOf(roles) == [i \in 1..Len(roles) |-> Message(roles[i], <<MessageAtoms[i]>>)]

TokenHeaders == {"X-DeepSeek-API-Token", "X-OpenAI-API-Token", "X-Anthropic-API-Token"}

\* Requests: stream, system: Option<String>, messages.
Requests ==
  [stream : BOOLEAN,
   system : {None, Some(<<"sys">>)},
   messages : {MessagesOf(r) : r \in RoleLists}]

\* Header maps: the token headers present (at most one missing) and X-Target-Model.
HeaderMaps ==
  [tokens : {TokenHeaders} \cup {TokenHeaders \ {h} : h \in TokenHeaders},
   target_model : {None, Some("openai"), Some("claude")}]

HasSystem(msgs) == \E i \in 1..Len(msgs) : msgs[i].role = "system"

\* Vec::retain(|msg| msg.role != Role::System), and the same filter elsewhere
RECURSIVE RetainNonSystem(_)
RetainNonSystem(msgs) ==
  IF msgs = <<>> THEN <<>>
  ELSE IF Head(msgs).role = "system" THEN RetainNonSystem(Tail(msgs))
  ELSE <<Head(msgs)>> \o RetainNonSystem(Tail(msgs))

\* ApiRequest::validate_system_prompt (models/request.rs): a system prompt in
\* the system field and in the messages at once is the conflict that is rejected.
ValidateSystemPrompt(req) == ~(IsSome(req.system) /\ HasSystem(req.messages))

\* ApiRequest::get_messages_with_system (models/request.rs): the system field,
\* when given, as a System message ahead of the caller's non-System messages.
GetMessagesWithSystem(req) ==
  (IF IsSome(req.system) THEN <<Message("system", Unwrap(req.system))>> ELSE <<>>)
  \o RetainNonSystem(req.messages)

\* Result<T>
Ok(v) == [ok |-> TRUE, val |-> v]

Err(e) == [ok |-> FALSE, err |-> e]

\* error::ApiError
ApiError(kind, type_, message) == [kind |-> kind, type_ |-> type_, message |-> message]

MissingHeader(h) == ApiError("MissingHeader", "", <<h>>)

\* get_target_client without the look at the token header.
GetTargetClientNoTokenCheck(hdrs) ==
  IF IsSome(hdrs.target_model) /\ Unwrap(hdrs.target_model) = "openai"
    THEN Ok("openai")
    ELSE Ok("anthropic")

\* get_target_client taking the OpenAI-shaped target for an absent header.
GetTargetClientDefaultOpenAI(hdrs) ==
  LET target_model == IF IsSome(hdrs.target_model) THEN Unwrap(hdrs.target_model)
                      ELSE "openai"
  IN IF target_model = "openai"
       THEN IF "X-OpenAI-API-Token" \in hdrs.tokens THEN Ok("openai")
            ELSE Err(MissingHeader("X-OpenAI-API-Token"))
       ELSE IF "X-Anthropic-API-Token" \in hdrs.tokens THEN Ok("anthropic")
            ELSE Err(MissingHeader("X-Anthropic-API-Token"))

\* handlers.rs get_target_client
GetTargetClient(hdrs) ==
  LET target_model == IF IsSome(hdrs.target_model) THEN Unwrap(hdrs.target_model)
                      ELSE "anthropic"
  IN IF target_model = "openai"
       THEN IF "X-OpenAI-API-Token" \in hdrs.tokens THEN Ok("openai")
            ELSE Err(MissingHeader("X-OpenAI-API-Token"))
       ELSE IF "X-Anthropic-API-Token" \in hdrs.tokens THEN Ok("anthropic")
            ELSE Err(MissingHeader("X-Anthropic-API-Token"))

\* The head of the handlers without the validation of the system prompt.
PreflightNoValidation(req, hdrs) ==
  IF "X-DeepSeek-API-Token" \notin hdrs.tokens
    THEN Err(MissingHeader("X-DeepSeek-API-Token"))
  ELSE GetTargetClient(hdrs)

\* The synchronous head of chat and of chat_stream: validation, then the tokens.
Preflight(req, hdrs) ==
  IF ~ValidateSystemPrompt(req) THEN Err(ApiError("InvalidSystemPrompt", "", <<>>))
  ELSE IF "X-DeepSeek-API-Token" \notin hdrs.tokens
    THEN Err(MissingHeader("X-DeepSeek-API-Token"))
  ELSE GetTargetClient(hdrs)

------------------------------------------------------------------------------
\* What a provider answers to one blocking call: send is "ok" or "failed",
\* status the HTTP status, body the body text (None: it cannot be read),
\* parsed the response the body parses to (None: it does not parse).

NoAnswer == [send |-> "none", status |-> 0, body |-> None, parsed |-> None]

Answer(status, body, parsed) ==
  [send |-> "ok", status |-> status, body |-> body, parsed |-> parsed]

SendFailed == [send |-> "failed", status |-> 0, body |-> None, parsed |-> None]

\* StatusCode::is_success
IsSuccess(status) == 200 <= status /\ status < 300

AMessage(content, reasoning_content) ==
  [content |-> content, reasoning_content |-> reasoning_content]

DsResponse(fp, messages) ==
  [system_fingerprint |-> fp, choices |-> [i \in 1..Len(messages) |-> [message |-> messages[i]]]]

\* The DeepSeekResponse bodies of the reasoning provider (before process_ollama_content).
DeepSeekResponses ==
  { DsResponse("fp_x", <<>>),
    DsResponse("fp_x", <<AMessage(Some(<<"ans">>), None)>>),
    DsResponse("fp_x", <<AMessage(Some(<<"ans">>), Some(<<"r">>))>>),
    DsResponse("fp_x", <<AMessage(None, Some(<<>>))>>),
    DsResponse("fp_x", <<AMessage(None, Some(<<" ", "r", "\n">>))>>),
    DsResponse("fp_x", <<AMessage(None, Some(ThinkOpen \o <<"r">> \o ThinkClose))>>),
    DsResponse("fp_ollama",
               <<AMessage(Some(ThinkOpen \o <<"a">> \o ThinkClose \o <<"b">>), None)>>),
    DsResponse("fp_ollama", <<AMessage(Some(<<"ans">>), None)>>),
    DsResponse("fp_x", <<AMessage(None, None), AMessage(None, Some(<<"r2">>))>>) }

DeepSeekAnswers ==
  { SendFailed,
    Answer(401, Some(<<"unauthorized">>), None),
    Answer(401, None, None),
    Answer(500, Some(<<"overloaded">>), None),
    Answer(200, None, None),
    Answer(200, Some(<<"garbage">>), None) }
  \cup { Answer(200, Some(<<"json">>), Some(r)) : r \in DeepSeekResponses }

\* DeepSeekClient::chat without the check of the status.
DeepSeekChatNoStatusCheck(net) ==
  IF net.send = "failed"
    THEN Err(ApiError("DeepSeekError", "request_failed", <<"Request failed: ", "e">>))
  ELSE IF ~IsSome(net.body)
    THEN Err(ApiError("DeepSeekError", "parse_error",
                      <<"Failed to get response text: ", "e">>))
  ELSE IF ~IsSome(net.parsed)
    THEN Err(ApiError("DeepSeekError", "parse_error",
                      <<"Failed to parse response: ", "e", ". Response body: ">>
                      \o Unwrap(net.body)))
  ELSE Ok(ResponseProcessOllama(Unwrap(net.parsed)))

\* DeepSeekClient::chat after the request is built
DeepSeekChat(net) ==
  IF net.send = "failed"
    THEN Err(ApiError("DeepSeekError", "request_failed", <<"Request failed: ", "e">>))
  ELSE IF ~IsSuccess(net.status)
    THEN Err(ApiError("DeepSeekError", "api_error",
                      IF IsSome(net.body) THEN Unwrap(net.body) ELSE <<"Unknown error">>))
  ELSE IF ~IsSome(net.body)
    THEN Err(ApiError("DeepSeekError", "parse_error",
                      <<"Failed to get response text: ", "e">>))
  ELSE IF ~IsSome(net.parsed)
    THEN Err(ApiError("DeepSeekError", "parse_error",
                      <<"Failed to parse response: ", "e", ". Response body: ">>
                      \o Unwrap(net.body)))
  ELSE Ok(ResponseProcessOllama(Unwrap(net.parsed)))

\* OpenAIResponse bodies: choices are [content: Option<text>]
OpenAIResponses ==
  { [choices |-> <<>>],
    [choices |-> <<[content |-> None]>>],
    [choices |-> <<[content |-> Some(<<"t">>)]>>] }

OpenAIAnswers ==
  { SendFailed,
    Answer(401, Some(<<"unauthorized">>), None),
    Answer(200, Some(<<"garbage">>), None) }
  \cup { Answer(200, Some(<<"json">>), Some(r)) : r \in OpenAIResponses }

\* OpenAIClient::chat after the request is built
OpenAIChat(net) ==
  IF net.send = "failed"
    THEN Err(ApiError("OpenAIError", "request_failed", <<"Request failed: ", "e">>))
  ELSE IF ~IsSuccess(net.status)
    THEN Err(ApiError("OpenAIError", "api_error",
                      IF IsSome(net.body) THEN Unwrap(net.body) ELSE <<"Unknown error">>))
  ELSE IF ~IsSome(net.body) \/ ~IsSome(net.parsed)
    THEN Err(ApiError("OpenAIError", "parse_error", <<"Failed to parse response: ", "e">>))
  ELSE Ok(Unwrap(net.parsed))

\* ContentBlock
ContentBlock(content_type, text) == [content_type |-> content_type, text |-> text]

\* Anthropic response bodies as serde_json values: content is an array of
\* objects whose "type" and "text" are Option<string>.
AnthropicResponses ==
  { [content |-> <<>>],
    [content |-> <<[type |-> Some("text"), text |-> Some(<<"t1">>)]>>],
    [content |-> <<[type |-> Some("text"), text |-> Some(<<"t1">>)],
                   [type |-> Some("tool_use"), text |-> None],
                   [type |-> Some("text"), text |-> Some(<<"t2">>)]>>] }

\* AnthropicClient::chat (clients/anthropic.rs): a response or an error
AnthropicResults ==
  { Err(ApiError("AnthropicError", "api_error", <<"unauthorized">>)) }
  \cup { Ok(r) : r \in AnthropicResponses }

------------------------------------------------------------------------------
VARIABLES
  request,            \* the ApiRequest
  headers,            \* the request's header map
  pc,                 \* the handler: "received", "reasoning_call", "target_call", "responded"
  response,           \* what the handler returned
  messages,           \* let messages = request.get_messages_with_system()
  target_model,       \* get_target_client's choice
  thinking_content,   \* chat: the wrapped reasoning text
  target_messages,    \* the message list handed to the target adapter
  dsNet,              \* what the reasoning provider answered
  tgNet,              \* what the target provider answered
  dsCalls,            \* calls of the reasoning adapter (chat or chat_stream)
  targetCalls,        \* calls of the target adapter (chat or chat_stream)
  taskPc,             \* the spawned task: "none", "spawned", "reasoning", "target", "finished"
  dsStream,           \* deepseek_stream: "none", "new", "open", "done"
  tgStream,           \* the target stream: "none", "new", "open", "done"
  legError,           \* the legs whose stream yielded an Err item
  current_chunk,      \* chat_stream: the pending text scanned for the markers
  complete_reasoning, \* chat_stream: the reasoning accumulator
  nReasoning,         \* chunks the reasoning stream has yielded
  nTarget,            \* chunks the target stream has yielded
  chan,               \* the mpsc channel's buffer
  outbox,             \* events of the step whose send is waiting for room
  rxAlive,            \* the receiver (the client's SSE stream) is not dropped
  received,           \* the events the client has been forwarded
  produced,           \* the events the task has passed to tx.send, in order
  feed,               \* text the reasoning provider has still to stream
  fedText,            \* the content increments streamed so far, concatenated
  residualOut,        \* the non-reasoning text the extractor has returned
  targetFed,          \* the StreamResponses openai_stream has yielded, in order
  decoder,            \* the adapter whose chat_stream decodes: "deepseek" or "openai"
  netChunks,          \* the network chunks of the response's byte stream, in order
  netFail,            \* the byte stream fails after its last chunk instead of ending
  netSetup,           \* how the request goes: "ok", "invalid_token", "invalid_header", "send_failed"
  dec,                \* per run of the decoder: state, chunks read, data, items yielded
  buildArgs,          \* the adapter call: adapter, api_token, messages, stream, config.body, config.headers
  builtRequest,       \* Option: the JSON body of the request build_request returned
  builtHeaders,       \* Option: the Result of the adapter's build_headers
  compatCall,         \* a call of handle_openai_chat: state.config, headers, openai_request
  internal            \* Option: the new_headers and internal_request handle_openai_chat built

vars ==
  <<request, headers, pc, response, messages, target_model, thinking_content,
    target_messages, dsNet, tgNet, dsCalls, targetCalls, taskPc, dsStream, tgStream,
    legError, current_chunk, complete_reasoning, nReasoning, nTarget, chan, outbox,
    rxAlive, received, produced, feed, fedText, residualOut, targetFed,
    decoder, netChunks, netFail, netSetup, dec, buildArgs, builtRequest,
    builtHeaders, compatCall, internal>>

handlerVars ==
  <<request, headers, pc, response, messages, target_model, thinking_content,
    target_messages, dsNet, tgNet, dsCalls, targetCalls, taskPc, dsStream, tgStream,
    legError, current_chunk, complete_reasoning, nReasoning, nTarget, chan, outbox,
    rxAlive, received, produced, feed, fedText, residualOut, targetFed>>

decodeVars == <<decoder, netChunks, netFail, netSetup, dec>>

buildVars == <<buildArgs, builtRequest, builtHeaders, compatCall, internal>>

requestVars == <<request, headers>>

taskVars ==
  <<taskPc, dsStream, tgStream, legError, current_chunk, complete_reasoning,
    nReasoning, nTarget>>

channelVars == <<chan, outbox, rxAlive, received, produced>>

extractVars == <<feed, fedText, residualOut, targetFed>>

NoResponse == [kind |-> "none"]

ErrorResponse(e) == [kind |-> "error", err |-> e]

\* Json(ApiResponse { created, content })
JsonResponse(content) == [kind |-> "json", content |-> content]

\* SseResponse::new(ReceiverStream::new(rx))
SseResponse == [kind |-> "sse"]

\* The state in which a request has arrived and nothing has run.
Fresh(req, hdrs) ==
  /\ request = req
  /\ headers = hdrs
  /\ pc = "received"
  /\ response = NoResponse
  /\ messages = <<>>
  /\ target_model = ""
  /\ thinking_content = <<>>
  /\ target_messages = <<>>
  /\ dsNet = NoAnswer
  /\ tgNet = NoAnswer
  /\ dsCalls = 0
  /\ targetCalls = 0
  /\ taskPc = "none"
  /\ dsStream = "none"
  /\ tgStream = "none"
  /\ legError = {}
  /\ current_chunk = <<>>
  /\ complete_reasoning = <<>>
  /\ nReasoning = 0
  /\ nTarget = 0
  /\ chan = <<>>
  /\ outbox = <<>>
  /\ rxAlive = FALSE
  /\ received = <<>>
  /\ produced = <<>>
  /\ fedText = <<>>
  /\ residualOut = <<>>
  /\ targetFed = <<>>

\* No stream is being decoded.
NoDecoding ==
  /\ decoder = "none"
  /\ netChunks = <<>>
  /\ netFail = FALSE
  /\ netSetup = "ok"
  /\ dec = <<>>

\* No request is being built.
NoBuilding ==
  /\ buildArgs = <<>>
  /\ builtRequest = <<>>
  /\ builtHeaders = <<>>
  /\ compatCall = <<>>
  /\ internal = <<>>

Init ==
  /\ feed = <<>>
  /\ NoDecoding
  /\ NoBuilding
  /\ \E req \in Requests, hdrs \in HeaderMaps : Fresh(req, hdrs)

------------------------------------------------------------------------------
\* handlers.rs chat: the blocking handler

\* chat, up to the call of the reasoning adapter
ChatEntry ==
  /\ pc = "received"
  /\ ~request.stream
  /\ IF Preflight(request, headers).ok
       THEN /\ target_model' = Preflight(request, headers).val
            /\ messages' = GetMessagesWithSystem(request)
            /\ pc' = "reasoning_call"
            /\ UNCHANGED response
       ELSE /\ response' = ErrorResponse(Preflight(request, headers).err)
            /\ pc' = "responded"
            /\ UNCHANGED <<target_model, messages>>
  /\ UNCHANGED <<requestVars, decodeVars, buildVars, thinking_content, target_messages, dsNet, tgNet, dsCalls,
                 targetCalls, taskVars, channelVars, extractVars>>

\* chat: Option<&str> of the first choice's reasoning_content, trimmed
ReasoningContent(deepseek_response) ==
  IF deepseek_response.choices = <<>> THEN None
  ELSE IF ~IsSome(deepseek_response.choices[1].message.reasoning_content) THEN None
  ELSE Some(Trim(Unwrap(deepseek_response.choices[1].message.reasoning_content)))

MissingContent ==
  ApiError("DeepSeekError", "missing_content", <<"No reasoning content in response">>)

\* chat: thinking_content
ThinkingContent(reasoning_content) ==
  IF StartsWith(reasoning_content, ThinkOpen) /\ EndsWith(reasoning_content, ThinkClose)
    THEN reasoning_content
    ELSE ThinkOpen \o NL \o reasoning_content \o NL \o ThinkClose

\* chat: target_messages
ChatTargetMessages(msgs, content) ==
  RetainNonSystem(msgs) \o <<Message("assistant", content)>>

\* chat: the call of the reasoning adapter and what follows, up to the call of
\* the target adapter
ChatReasoning(net) ==
  /\ pc = "reasoning_call"
  /\ dsNet' = net
  /\ dsCalls' = dsCalls + 1
  /\ LET r == DeepSeekChat(net)
     IN IF ~r.ok
          THEN /\ response' = ErrorResponse(r.err)
               /\ pc' = "responded"
               /\ UNCHANGED <<thinking_content, target_messages>>
        ELSE IF ~IsSome(ReasoningContent(r.val))
          THEN /\ response' = ErrorResponse(MissingContent)
               /\ pc' = "responded"
               /\ UNCHANGED <<thinking_content, target_messages>>
        ELSE /\ thinking_content' = ThinkingContent(Unwrap(ReasoningContent(r.val)))
             /\ target_messages' = ChatTargetMessages(messages, thinking_content')
             /\ pc' = "target_call"
             /\ UNCHANGED response
  /\ UNCHANGED <<requestVars, decodeVars, buildVars, messages, target_model, tgNet, targetCalls, taskVars,
                 channelVars, extractVars>>

\* The blocks of an OpenAI response with an empty text block for a missing content.
OpenAIBlocksAlwaysOne(r) ==
  IF r.choices # <<>> /\ IsSome(r.choices[1].content)
    THEN <<ContentBlock("text", Unwrap(r.choices[1].content))>>
    ELSE <<ContentBlock("text", <<>>)>>

\* chat: the blocks of an OpenAI response
OpenAIBlocks(r) ==
  IF r.choices # <<>> /\ IsSome(r.choices[1].content)
    THEN <<ContentBlock("text", Unwrap(r.choices[1].content))>>
    ELSE <<>>

\* chat: the blocks of an Anthropic response (filter_map over the content array)
RECURSIVE AnthropicBlocks(_)
AnthropicBlocks(content) ==
  IF content = <<>> THEN <<>>
  ELSE (IF IsSome(Head(content).type) /\ IsSome(Head(content).text)
          THEN <<ContentBlock(Unwrap(Head(content).type), Unwrap(Head(content).text))>>
          ELSE <<>>)
       \o AnthropicBlocks(Tail(content))

\* The call of the OpenAI adapter answering an error of the target with the
\* reasoning block alone.
ChatTargetOpenAIPartial(net) ==
  /\ pc = "target_call"
  /\ target_model = "openai"
  /\ tgNet' = net
  /\ targetCalls' = targetCalls + 1
  /\ pc' = "responded"
  /\ response' =
       IF OpenAIChat(net).ok
         THEN JsonResponse(<<ContentBlock("text", thinking_content)>>
                           \o OpenAIBlocks(OpenAIChat(net).val))
         ELSE JsonResponse(<<ContentBlock("text", thinking_content)>>)
  /\ UNCHANGED <<requestVars, decodeVars, buildVars, messages, target_model,
                 thinking_content, target_messages, dsNet, dsCalls, taskVars,
                 channelVars, extractVars>>

\* chat: the call of the OpenAI adapter and the response
ChatTargetOpenAI(net) ==
  /\ pc = "target_call"
  /\ target_model = "openai"
  /\ tgNet' = net
  /\ targetCalls' = targetCalls + 1
  /\ pc' = "responded"
  /\ response' =
       IF OpenAIChat(net).ok
         THEN JsonResponse(<<ContentBlock("text", thinking_content)>>
                           \o OpenAIBlocks(OpenAIChat(net).val))
         ELSE ErrorResponse(OpenAIChat(net).err)
  /\ UNCHANGED <<requestVars, decodeVars, buildVars, messages, target_model, thinking_content, target_messages,
                 dsNet, dsCalls, taskVars, channelVars, extractVars>>

\* chat: the call of the Anthropic adapter and the response
ChatTargetAnthropic(result) ==
  /\ pc = "target_call"
  /\ target_model # "openai"
  /\ tgNet' = IF result.ok THEN Answer(200, Some(<<"json">>), Some(result.val)) ELSE tgNet
  /\ targetCalls' = targetCalls + 1
  /\ pc' = "responded"
  /\ response' =
       IF result.ok
         THEN JsonResponse(<<ContentBlock("text", thinking_content)>>
                           \o AnthropicBlocks(result.val.content))
         ELSE ErrorResponse(result.err)
  /\ UNCHANGED <<requestVars, decodeVars, buildVars, messages, target_model,
                 thinking_content, target_messages, dsNet, dsCalls, taskVars,
                 channelVars, extractVars>>

BlockingNext ==
  \/ ChatEntry
  \/ \E net \in DeepSeekAnswers : ChatReasoning(net)
  \/ \E net \in OpenAIAnswers : ChatTargetOpenAI(net)
  \/ \E result \in AnthropicResults : ChatTargetAnthropic(result)

SpecBlocking == Init /\ [][BlockingNext]_vars

------------------------------------------------------------------------------
\* handlers.rs chat_stream: the events, the channel and the client

\* An SSE event of the response: kind names the send that made it ("open",
\* "reasoning", "close", "target", "error", "done"), text is the payload's text
\* and sse_event the event name set with Event::event.
StreamEvent(kind, text, sse_event) == [kind |-> kind, text |-> text, sse_event |-> sse_event]

OpeningEvent == StreamEvent("open", ThinkingOpen \o NL, "")

ClosingEvent == StreamEvent("close", NL \o ThinkingClose, "")

ReasoningEvent(text) == StreamEvent("reasoning", text, "")

TargetEvent(text) == StreamEvent("target", text, "")

\* StreamEvent::Error { message: e.to_string(), code: 500 }
ErrorEvent(e, sse_event) == StreamEvent("error", e.message, sse_event)

DoneEvent == StreamEvent("done", <<"[DONE]">>, "")

Min(a, b) == IF a <= b THEN a ELSE b

\* tx.send(..).await returns: at once when the receiver is dropped, else when
\* the buffer has room.
CanSend(evs) ==
  /\ outbox = <<>>
  /\ evs = <<>> \/ ~rxAlive \/ Len(chan) < ChannelCapacity

\* Send into a buffer without a capacity.
SendUnbounded(evs) ==
  /\ produced' = produced \o evs
  /\ IF ~rxAlive
       THEN /\ chan' = chan
            /\ outbox' = <<>>
       ELSE /\ chan' = chan \o evs
            /\ outbox' = <<>>
  /\ UNCHANGED <<rxAlive, received>>

\* Send with the events put at the front of the buffer.
SendFront(evs) ==
  /\ produced' = produced \o evs
  /\ IF ~rxAlive
       THEN /\ chan' = chan
            /\ outbox' = <<>>
       ELSE /\ chan' = evs \o chan
            /\ outbox' = <<>>
  /\ UNCHANGED <<rxAlive, received>>

\* let _ = tx.send(..).await for each event of evs in turn: a send to a dropped
\* receiver fails and the failure is ignored; a send that finds the buffer full
\* waits in outbox.
Send(evs) ==
  /\ produced' = produced \o evs
  /\ IF ~rxAlive
       THEN /\ chan' = chan
            /\ outbox' = <<>>
       ELSE LET n == Min(ChannelCapacity - Len(chan), Len(evs))
            IN /\ chan' = chan \o SubSeq(evs, 1, n)
               /\ outbox' = SubSeq(evs, n + 1, Len(evs))
  /\ UNCHANGED <<rxAlive, received>>

\* A waiting send completes when the client has made room.
SendPending ==
  /\ outbox # <<>>
  /\ rxAlive
  /\ Len(chan) < ChannelCapacity
  /\ chan' = Append(chan, Head(outbox))
  /\ outbox' = Tail(outbox)
  /\ UNCHANGED <<requestVars, decodeVars, buildVars, pc, response, messages, target_model, thinking_content,
                 target_messages, dsNet, tgNet, dsCalls, targetCalls, taskVars, rxAlive,
                 received, produced, extractVars>>

\* ReceiverStream: the next event of the channel is forwarded to the client
ClientRecv ==
  /\ rxAlive
  /\ chan # <<>>
  /\ received' = Append(received, Head(chan))
  /\ chan' = Tail(chan)
  /\ UNCHANGED <<requestVars, decodeVars, buildVars, pc, response, messages, target_model, thinking_content,
                 target_messages, dsNet, tgNet, dsCalls, targetCalls, taskVars, outbox,
                 rxAlive, produced, extractVars>>

\* A disconnect that leaves a waiting send waiting.
ClientDisconnectKeepsBlocked ==
  /\ rxAlive
  /\ rxAlive' = FALSE
  /\ chan' = <<>>
  /\ UNCHANGED <<requestVars, decodeVars, buildVars, pc, response, messages,
                 target_model, thinking_content, target_messages, dsNet, tgNet, dsCalls,
                 targetCalls, taskVars, outbox, received, produced, extractVars>>

\* The client disconnects: the receiver is dropped with what it buffered, and a
\* waiting send fails.
ClientDisconnect ==
  /\ rxAlive
  /\ rxAlive' = FALSE
  /\ chan' = <<>>
  /\ outbox' = <<>>
  /\ UNCHANGED <<requestVars, decodeVars, buildVars, pc, response, messages, target_model, thinking_content,
                 target_messages, dsNet, tgNet, dsCalls, targetCalls, taskVars,
                 received, produced, extractVars>>

\* chat_stream, up to its return: validation, the tokens, the channel, the spawn
ChatStreamEntry ==
  /\ pc = "received"
  /\ request.stream
  /\ pc' = "responded"
  /\ IF Preflight(request, headers).ok
       THEN /\ target_model' = Preflight(request, headers).val
            /\ messages' = GetMessagesWithSystem(request)
            /\ rxAlive' = TRUE
            /\ taskPc' = "spawned"
            /\ response' = SseResponse
       ELSE /\ response' = ErrorResponse(Preflight(request, headers).err)
            /\ UNCHANGED <<target_model, messages, rxAlive, taskPc>>
  /\ UNCHANGED <<requestVars, decodeVars, buildVars, thinking_content, target_messages, dsNet, tgNet, dsCalls,
                 targetCalls, dsStream, tgStream, legError, current_chunk,
                 complete_reasoning, nReasoning, nTarget, chan, outbox, received,
                 produced, extractVars>>

\* The task's start: deepseek_client.chat_stream(..) and the initial thinking tag
TaskStart ==
  /\ taskPc = "spawned"
  /\ CanSend(<<OpeningEvent>>)
  /\ dsCalls' = dsCalls + 1
  /\ dsStream' = "new"
  /\ Send(<<OpeningEvent>>)
  /\ taskPc' = "reasoning"
  /\ UNCHANGED <<requestVars, decodeVars, buildVars, pc, response, messages, target_model, thinking_content,
                 target_messages, dsNet, tgNet, targetCalls, tgStream, legError,
                 current_chunk, complete_reasoning, nReasoning, nTarget, extractVars>>

------------------------------------------------------------------------------
\* chat_stream: the reasoning leg

\* What a provider answers to a streaming request: the status; the body follows
\* as a byte stream.
StreamAnswer(status) == [send |-> "ok", status |-> status, body |-> None, parsed |-> None]

StreamAnswers == {SendFailed, StreamAnswer(200), StreamAnswer(401)}

RequestFailed(kind) == ApiError(kind, "request_failed", <<"Request failed: ", "e">>)

StreamError(kind) == ApiError(kind, "stream_error", <<"Stream error: ", "e">>)

\* The Err arm without its return: the code after the loop runs on.
ReasoningErrArmFallThrough(e) ==
  /\ Send(<<ErrorEvent(e, ""), ClosingEvent>>)
  /\ taskPc' = "target"

\* The Err arm of the reasoning loop: one error event, then return
ReasoningErrArm(e) ==
  /\ Send(<<ErrorEvent(e, "")>>)
  /\ taskPc' = "finished"

\* The first poll of deepseek_stream: client.post(..).send().await. A failure
\* is the stream's Err item; any response, whatever its status, becomes the
\* byte stream that is decoded.
DeepSeekConnect(net) ==
  /\ taskPc = "reasoning"
  /\ dsStream = "new"
  /\ dsNet' = net
  /\ IF net.send = "failed"
       THEN /\ CanSend(<<ErrorEvent(RequestFailed("DeepSeekError"), "")>>)
            /\ dsStream' = "done"
            /\ legError' = legError \cup {"reasoning"}
            /\ ReasoningErrArm(RequestFailed("DeepSeekError"))
       ELSE /\ outbox = <<>>
            /\ dsStream' = "open"
            /\ UNCHANGED <<legError, taskPc, channelVars>>
  /\ UNCHANGED <<requestVars, decodeVars, buildVars, pc, response, messages, target_model, thinking_content,
                 target_messages, tgNet, dsCalls, targetCalls, tgStream, current_chunk,
                 complete_reasoning, nReasoning, nTarget, extractVars>>

\* A StreamResponse with one choice
SChunk(fp, delta, message) ==
  [system_fingerprint |-> fp, choices |-> <<[message |-> message, delta |-> delta]>>]

\* The marker scanning without current_chunk.clear() after an extraction.
DeltaContentStepKeepBuffer(content, is_ollama, st) ==
  IF ~is_ollama THEN st
  ELSE LET cur == st.cur \o content
           extracted == IF Contains(cur, ThinkOpen) /\ Contains(cur, ThinkClose)
                          THEN ExtractThinkContent(cur)
                          ELSE None
       IN [cur |-> cur,
           acc |-> IF IsSome(extracted) THEN st.acc \o Unwrap(extracted).reasoning
                   ELSE st.acc,
           events |-> st.events,
           residual |-> IF IsSome(extracted) THEN st.residual \o Unwrap(extracted).cleaned
                        ELSE st.residual]

\* The marker scanning forwarding the start-marker token as well.
DeltaContentStepForwardToken(content, is_ollama, st) ==
  IF ~is_ollama THEN st
  ELSE LET cur == st.cur \o content
           forward == /\ Contains(cur, ThinkOpen)
                      /\ ~Contains(cur, ThinkClose)
           extracted == IF Contains(cur, ThinkOpen) /\ Contains(cur, ThinkClose)
                          THEN ExtractThinkContent(cur)
                          ELSE None
       IN [cur |-> IF IsSome(extracted) THEN <<>> ELSE cur,
           acc |-> IF IsSome(extracted) THEN st.acc \o Unwrap(extracted).reasoning
                   ELSE st.acc,
           events |-> IF forward THEN st.events \o <<ReasoningEvent(content)>>
                      ELSE st.events,
           residual |-> IF IsSome(extracted) THEN st.residual \o Unwrap(extracted).cleaned
                        ELSE st.residual]

\* The marker scanning on every chunk, whatever its fingerprint.
DeltaContentStepUngated(content, is_ollama, st) ==
  LET cur == st.cur \o content
      forward == /\ Contains(cur, ThinkOpen)
                 /\ ~Contains(cur, ThinkClose)
                 /\ content # ThinkOpen
      extracted == IF Contains(cur, ThinkOpen) /\ Contains(cur, ThinkClose)
                     THEN ExtractThinkContent(cur)
                     ELSE None
  IN [cur |-> IF IsSome(extracted) THEN <<>> ELSE cur,
      acc |-> IF IsSome(extracted) THEN st.acc \o Unwrap(extracted).reasoning
              ELSE st.acc,
      events |-> IF forward THEN st.events \o <<ReasoningEvent(content)>>
                 ELSE st.events,
      residual |-> IF IsSome(extracted) THEN st.residual \o Unwrap(extracted).cleaned
                   ELSE st.residual]

\* chat_stream: the delta's content (marker scanning on current_chunk);
\* st is [cur, acc, events, residual]
DeltaContentStep(content, is_ollama, st) ==
  IF ~is_ollama THEN st
  ELSE LET cur == st.cur \o content
           forward == /\ Contains(cur, ThinkOpen)
                      /\ ~Contains(cur, ThinkClose)
                      /\ content # ThinkOpen
           extracted == IF Contains(cur, ThinkOpen) /\ Contains(cur, ThinkClose)
                          THEN ExtractThinkContent(cur)
                          ELSE None
       IN [cur |-> IF IsSome(extracted) THEN <<>> ELSE cur,
           acc |-> IF IsSome(extracted) THEN st.acc \o Unwrap(extracted).reasoning
                   ELSE st.acc,
           events |-> IF forward THEN st.events \o <<ReasoningEvent(content)>>
                      ELSE st.events,
           residual |-> IF IsSome(extracted) THEN st.residual \o Unwrap(extracted).cleaned
                        ELSE st.residual]

\* chat_stream: the delta's reasoning_content
DeltaReasoningStep(reasoning, st) ==
  IF reasoning # <<>>
    THEN [st EXCEPT !.events = st.events \o <<ReasoningEvent(reasoning)>>,
                    !.acc = st.acc \o reasoning]
    ELSE st

\* chat_stream: the choice's message
MessageStep(message, is_ollama, st) ==
  LET extracted == IF IsSome(message.content) /\ is_ollama
                     THEN ExtractThinkContent(Unwrap(message.content))
                     ELSE None
      st1 == IF IsSome(extracted)
               THEN [st EXCEPT !.acc = st.acc \o Unwrap(extracted).reasoning]
               ELSE st
  IN IF IsSome(message.reasoning_content) /\ Unwrap(message.reasoning_content) # <<>>
       THEN [st1 EXCEPT !.acc = st1.acc \o Unwrap(message.reasoning_content)]
       ELSE st1

\* chat_stream: the Ok arm of the reasoning loop on one StreamResponse
ReasoningStep(resp, st) ==
  IF resp.choices = <<>> THEN st
  ELSE LET choice == resp.choices[1]
           is_ollama == resp.system_fingerprint = "fp_ollama"
           st1 == IF IsSome(choice.delta) /\ IsSome(Unwrap(choice.delta).content)
                    THEN DeltaContentStep(Unwrap(Unwrap(choice.delta).content), is_ollama, st)
                    ELSE st
           st2 == IF IsSome(choice.delta) /\ IsSome(Unwrap(choice.delta).reasoning_content)
                    THEN DeltaReasoningStep(Unwrap(Unwrap(choice.delta).reasoning_content), st1)
                    ELSE st1
       IN IF IsSome(choice.message) THEN MessageStep(Unwrap(choice.message), is_ollama, st2)
          ELSE st2

\* The body of a response that is not a success carries no data frame.
HasFrames(net) == IsSuccess(net.status)

\* The content increment a StreamResponse carries for marker scanning
RawContent(raw) ==
  IF /\ raw.system_fingerprint = "fp_ollama"
     /\ raw.choices # <<>>
     /\ IsSome(raw.choices[1].delta)
     /\ IsSome(Unwrap(raw.choices[1].delta).content)
    THEN Unwrap(Unwrap(raw.choices[1].delta).content)
    ELSE <<>>

\* deepseek_stream yields the StreamResponse decoded from a data frame (after
\* process_ollama_content) and the Ok arm handles it.
ReasoningChunk(raw) ==
  /\ taskPc = "reasoning"
  /\ dsStream = "open"
  /\ HasFrames(dsNet)
  /\ fedText' = fedText \o RawContent(raw)
  /\ LET st == ReasoningStep(StreamProcessOllama(raw),
                             [cur |-> current_chunk, acc |-> complete_reasoning,
                              events |-> <<>>, residual |-> residualOut])
     IN /\ CanSend(st.events)
        /\ Send(st.events)
        /\ current_chunk' = st.cur
        /\ complete_reasoning' = st.acc
        /\ residualOut' = st.residual
  /\ nReasoning' = nReasoning + 1
  /\ UNCHANGED <<requestVars, decodeVars, buildVars, pc, response, messages, target_model, thinking_content,
                 target_messages, dsNet, tgNet, dsCalls, targetCalls, taskPc, dsStream,
                 tgStream, legError, nTarget, targetFed>>

\* The byte stream fails: the stream's Err item, handled by the Err arm
ReasoningStreamError ==
  /\ taskPc = "reasoning"
  /\ dsStream = "open"
  /\ CanSend(<<ErrorEvent(StreamError("DeepSeekError"), "")>>)
  /\ dsStream' = "done"
  /\ legError' = legError \cup {"reasoning"}
  /\ ReasoningErrArm(StreamError("DeepSeekError"))
  /\ UNCHANGED <<requestVars, decodeVars, buildVars, pc, response, messages, target_model, thinking_content,
                 target_messages, dsNet, tgNet, dsCalls, targetCalls, tgStream,
                 current_chunk, complete_reasoning, nReasoning, nTarget, extractVars>>

\* chat_stream: target_messages
StreamTargetMessages(msgs, reasoning) ==
  Append(msgs, Message("assistant",
                       ThinkingOpen \o NL \o reasoning \o NL \o ThinkingClose))

\* The task giving up after the reasoning leg when the receiver is dropped.
AfterReasoningStopIfDisconnected ==
  IF rxAlive
    THEN /\ Send(<<ClosingEvent>>)
         /\ target_messages' = StreamTargetMessages(messages, complete_reasoning)
         /\ targetCalls' = targetCalls + 1
         /\ tgStream' = IF target_model = "openai" THEN "new" ELSE "open"
         /\ taskPc' = "target"
    ELSE /\ Send(<<ClosingEvent>>)
         /\ taskPc' = "finished"
         /\ UNCHANGED <<target_messages, targetCalls, tgStream>>

\* The code after the reasoning loop without the closing thinking tag.
AfterReasoningNoClosingTag ==
  /\ Send(<<>>)
  /\ target_messages' = StreamTargetMessages(messages, complete_reasoning)
  /\ targetCalls' = targetCalls + 1
  /\ tgStream' = IF target_model = "openai" THEN "new" ELSE "open"
  /\ taskPc' = "target"

\* The code after the reasoning loop failing on an empty accumulator, as the
\* blocking path does.
AfterReasoningFailIfEmpty ==
  IF complete_reasoning = <<>>
    THEN /\ Send(<<ErrorEvent(ApiError("Internal", "", <<"No reasoning content">>), "")>>)
         /\ taskPc' = "finished"
         /\ UNCHANGED <<target_messages, targetCalls, tgStream>>
    ELSE /\ Send(<<ClosingEvent>>)
         /\ target_messages' = StreamTargetMessages(messages, complete_reasoning)
         /\ targetCalls' = targetCalls + 1
         /\ tgStream' = IF target_model = "openai" THEN "new" ELSE "open"
         /\ taskPc' = "target"

\* The reasoning stream ends: the closing thinking tag, target_messages and the
\* call of the target adapter's chat_stream
AfterReasoning ==
  /\ Send(<<ClosingEvent>>)
  /\ target_messages' = StreamTargetMessages(messages, complete_reasoning)
  /\ targetCalls' = targetCalls + 1
  /\ tgStream' = IF target_model = "openai" THEN "new" ELSE "open"
  /\ taskPc' = "target"

ReasoningEnd ==
  /\ taskPc = "reasoning"
  /\ dsStream = "open"
  /\ feed = <<>>
  /\ CanSend(<<ClosingEvent>>)
  /\ dsStream' = "done"
  /\ AfterReasoning
  /\ UNCHANGED <<requestVars, decodeVars, buildVars, pc, response, messages, target_model, thinking_content,
                 dsNet, tgNet, dsCalls, legError, current_chunk, complete_reasoning,
                 nReasoning, nTarget, extractVars>>

\* The StreamResponses of the reasoning provider (before process_ollama_content):
\* a chunk that is not Ollama's with reasoning_content "r1" and with marked
\* text in the content of its delta and of its message, a chunk without a
\* choice, and an Ollama chunk with marked text in its delta's content.
StreamChunks ==
  { SChunk("fp_x", Some(AMessage(Some(ThinkOpen \o <<"z">> \o ThinkClose), Some(<<"r1">>))),
           Some(AMessage(Some(ThinkOpen \o <<"z">> \o ThinkClose), None))),
    [system_fingerprint |-> "fp_x", choices |-> <<>>],
    SChunk("fp_ollama", Some(AMessage(Some(ThinkOpen \o <<"a">> \o ThinkClose), None)), None) }

\* The reasoning provider streams one of StreamChunks.
ReasoningPoolChunk ==
  /\ nReasoning < MaxReasoningChunks
  /\ feed = <<>>
  /\ \E raw \in StreamChunks : ReasoningChunk(raw)
  /\ UNCHANGED feed

------------------------------------------------------------------------------
\* chat_stream: the target leg

\* OpenAI StreamResponses: choices are [content: Option<text>] (delta.content)
OpenAIStreamChunks ==
  { [choices |-> <<>>],
    [choices |-> <<[content |-> None]>>],
    [choices |-> <<[content |-> Some(<<>>)]>>],
    [choices |-> <<[content |-> Some(<<"t">>)]>>],
    [choices |-> <<[content |-> Some(<<"u">>)]>>] }

\* The Err arm without its return: the done event follows the error event.
OpenAIErrArmThenDone(e) ==
  /\ Send(<<ErrorEvent(e, "error"), DoneEvent>>)
  /\ taskPc' = "finished"

\* The Err arm of the OpenAI loop
OpenAIErrArm(e) ==
  /\ Send(<<ErrorEvent(e, "error")>>)
  /\ taskPc' = "finished"

\* After the target loop: the done event, and the task ends
AfterTarget ==
  /\ Send(<<DoneEvent>>)
  /\ taskPc' = "finished"

\* The first poll of openai_stream: client.post(..).send().await
OpenAIConnect(net) ==
  /\ taskPc = "target"
  /\ target_model = "openai"
  /\ tgStream = "new"
  /\ tgNet' = net
  /\ IF net.send = "failed"
       THEN /\ CanSend(<<ErrorEvent(RequestFailed("OpenAIError"), "error")>>)
            /\ tgStream' = "done"
            /\ legError' = legError \cup {"target"}
            /\ OpenAIErrArm(RequestFailed("OpenAIError"))
       ELSE /\ outbox = <<>>
            /\ tgStream' = "open"
            /\ UNCHANGED <<legError, taskPc, channelVars>>
  /\ UNCHANGED <<requestVars, decodeVars, buildVars, pc, response, messages, target_model, thinking_content,
                 target_messages, dsNet, dsCalls, targetCalls, dsStream, current_chunk,
                 complete_reasoning, nReasoning, nTarget, extractVars>>

\* An Ok arm without the is_empty test.
OpenAIStepForwardEmpty(resp) ==
  IF resp.choices # <<>> /\ IsSome(resp.choices[1].content)
    THEN <<TargetEvent(Unwrap(resp.choices[1].content))>>
    ELSE <<>>

\* chat_stream: the Ok arm of the OpenAI loop
OpenAIStep(resp) ==
  IF /\ resp.choices # <<>>
     /\ IsSome(resp.choices[1].content)
     /\ Unwrap(resp.choices[1].content) # <<>>
    THEN <<TargetEvent(Unwrap(resp.choices[1].content))>>
    ELSE <<>>

\* openai_stream yields a StreamResponse and the Ok arm handles it
OpenAIChunk(resp) ==
  /\ taskPc = "target"
  /\ target_model = "openai"
  /\ tgStream = "open"
  /\ HasFrames(tgNet)
  /\ nTarget < MaxTargetChunks
  /\ CanSend(OpenAIStep(resp))
  /\ Send(OpenAIStep(resp))
  /\ targetFed' = Append(targetFed, resp)
  /\ nTarget' = nTarget + 1
  /\ UNCHANGED <<requestVars, decodeVars, buildVars, pc, response, messages, target_model, thinking_content,
                 target_messages, dsNet, tgNet, dsCalls, targetCalls, taskPc, dsStream,
                 tgStream, legError, current_chunk, complete_reasoning, nReasoning,
                 feed, fedText, residualOut>>

\* The byte stream fails: the stream's Err item, handled by the Err arm
OpenAIStreamError ==
  /\ taskPc = "target"
  /\ target_model = "openai"
  /\ tgStream = "open"
  /\ CanSend(<<ErrorEvent(StreamError("OpenAIError"), "error")>>)
  /\ tgStream' = "done"
  /\ legError' = legError \cup {"target"}
  /\ OpenAIErrArm(StreamError("OpenAIError"))
  /\ UNCHANGED <<requestVars, decodeVars, buildVars, pc, response, messages, target_model, thinking_content,
                 target_messages, dsNet, tgNet, dsCalls, targetCalls, dsStream,
                 current_chunk, complete_reasoning, nReasoning, nTarget, extractVars>>

\* openai_stream ends
OpenAIEnd ==
  /\ taskPc = "target"
  /\ target_model = "openai"
  /\ tgStream = "open"
  /\ CanSend(<<DoneEvent>>)
  /\ tgStream' = "done"
  /\ AfterTarget
  /\ UNCHANGED <<requestVars, decodeVars, buildVars, pc, response, messages, target_model, thinking_content,
                 target_messages, dsNet, tgNet, dsCalls, targetCalls, dsStream, legError,
                 current_chunk, complete_reasoning, nReasoning, nTarget, extractVars>>

\* serde_json::to_string of a value with the text t
Json(t) == <<"{">> \o t \o <<"}">>

\* clients::anthropic::StreamEvent: type is "message_start" (content: the
\* message's content blocks), "content_block_delta" (content: the delta) or
\* another event
AnthropicEvents ==
  { [type |-> "message_start", content |-> <<>>],
    [type |-> "message_start", content |-> <<"b">>],
    [type |-> "content_block_delta", content |-> <<"d">>],
    [type |-> "ping", content |-> <<>>] }

\* chat_stream: the Ok arm of the Anthropic loop
AnthropicStep(event) ==
  IF event.type = "message_start"
    THEN IF event.content # <<>> THEN <<TargetEvent(Json(event.content))>> ELSE <<>>
  ELSE IF event.type = "content_block_delta"
    THEN <<TargetEvent(Json(event.content))>>
  ELSE <<>>

\* anthropic_stream yields an event and the Ok arm handles it
AnthropicEvent(event) ==
  /\ taskPc = "target"
  /\ target_model # "openai"
  /\ tgStream = "open"
  /\ nTarget < MaxTargetChunks
  /\ CanSend(AnthropicStep(event))
  /\ Send(AnthropicStep(event))
  /\ nTarget' = nTarget + 1
  /\ UNCHANGED <<requestVars, decodeVars, buildVars, pc, response, messages, target_model, thinking_content,
                 target_messages, dsNet, tgNet, dsCalls, targetCalls, taskPc, dsStream,
                 tgStream, legError, current_chunk, complete_reasoning, nReasoning,
                 extractVars>>

\* anthropic_stream yields an Err item: the Err arm of the Anthropic loop
AnthropicStreamError ==
  /\ taskPc = "target"
  /\ target_model # "openai"
  /\ tgStream = "open"
  /\ CanSend(<<ErrorEvent(StreamError("AnthropicError"), "")>>)
  /\ tgStream' = "done"
  /\ legError' = legError \cup {"target"}
  /\ Send(<<ErrorEvent(StreamError("AnthropicError"), "")>>)
  /\ taskPc' = "finished"
  /\ UNCHANGED <<requestVars, decodeVars, buildVars, pc, response, messages, target_model, thinking_content,
                 target_messages, dsNet, tgNet, dsCalls, targetCalls, dsStream,
                 current_chunk, complete_reasoning, nReasoning, nTarget, extractVars>>

\* anthropic_stream ends
AnthropicEnd ==
  /\ taskPc = "target"
  /\ target_model # "openai"
  /\ tgStream = "open"
  /\ CanSend(<<DoneEvent>>)
  /\ tgStream' = "done"
  /\ AfterTarget
  /\ UNCHANGED <<requestVars, decodeVars, buildVars, pc, response, messages, target_model, thinking_content,
                 target_messages, dsNet, tgNet, dsCalls, targetCalls, dsStream, legError,
                 current_chunk, complete_reasoning, nReasoning, nTarget, extractVars>>

StreamingNext ==
  \/ ChatStreamEntry
  \/ TaskStart
  \/ \E net \in StreamAnswers : DeepSeekConnect(net)
  \/ ReasoningPoolChunk
  \/ ReasoningStreamError
  \/ ReasoningEnd
  \/ \E net \in StreamAnswers : OpenAIConnect(net)
  \/ \E resp \in OpenAIStreamChunks : OpenAIChunk(resp)
  \/ OpenAIStreamError
  \/ OpenAIEnd
  \/ \E event \in AnthropicEvents : AnthropicEvent(event)
  \/ AnthropicStreamError
  \/ AnthropicEnd
  \/ ClientRecv
  \/ ClientDisconnect

\* handle_chat: chat_stream when request.stream, else chat
Next == BlockingNext \/ StreamingNext

Spec == Init /\ [][Next]_vars

------------------------------------------------------------------------------
\* The reasoning leg on a text that an Ollama-style provider streams as
\* delta.content increments, cut anywhere.

FeedTexts ==
  { ThinkOpen \o <<"A">> \o ThinkClose \o <<"B">>,
    ThinkOpen \o <<" ", "A">> \o ThinkClose \o <<"B">>,
    ThinkClose \o <<"x">> \o ThinkOpen,
    <<"x">> \o ThinkOpen \o <<"a">> \o ThinkClose,
    ThinkOpen \o <<"A">> \o ThinkClose \o ThinkOpen \o <<"B">> \o ThinkClose }

FeedRequest ==
  [stream |-> TRUE, system |-> None, messages |-> MessagesOf(<<"user">>)]

FeedHeaders == [tokens |-> TokenHeaders, target_model |-> Some("openai")]

InitFeed ==
  /\ feed \in FeedTexts
  /\ NoDecoding
  /\ NoBuilding
  /\ Fresh(FeedRequest, FeedHeaders)

\* The provider streams the next increment: a non-empty prefix of what is left
ReasoningFeedChunk ==
  /\ nReasoning < MaxFeedChunks
  /\ \E n \in 1..Len(feed) :
       /\ ReasoningChunk(SChunk("fp_ollama",
                                Some(AMessage(Some(SubSeq(feed, 1, n)), None)), None))
       /\ feed' = SubSeq(feed, n + 1, Len(feed))

FeedNext ==
  \/ ChatStreamEntry
  \/ TaskStart
  \/ DeepSeekConnect(StreamAnswer(200))
  \/ ReasoningFeedChunk
  \/ ReasoningEnd

SpecFeed == InitFeed /\ [][FeedNext]_vars

------------------------------------------------------------------------------
\* Properties

IsPrefix(a, b) == Len(a) <= Len(b) /\ SubSeq(b, 1, Len(a)) = a

Last(q) == q[Len(q)]

Positions(q, kinds) == {i \in 1..Len(q) : q[i].kind \in kinds}

\* The phase of an event that is not an error event
PhaseRank(kind) ==
  IF kind \in {"open", "reasoning", "close"} THEN 1
  ELSE IF kind = "target" THEN 2
  ELSE 3

\* C1: the client is forwarded the events in the order the task produced them
\* (what it has received is a prefix of what was produced, and while it is
\* attached nothing produced is missing from received, buffered and waiting);
\* among the events received every reasoning-phase event comes before every
\* target-phase event and every target-phase event before [DONE].
C1_StreamOrder ==
  /\ IsPrefix(received, produced)
  /\ rxAlive => received \o chan \o outbox = produced
  /\ \A i, j \in 1..Len(received) :
       (i < j /\ received[i].kind # "error" /\ received[j].kind # "error")
         => PhaseRank(received[i].kind) <= PhaseRank(received[j].kind)

C1_Witness ==
  /\ rxAlive
  /\ received # <<>>
  /\ Last(received).kind = "done"
  /\ Positions(received, {"reasoning"}) # {}
  /\ Positions(received, {"target"}) # {}

\* C2: an error event is the last event the task produces, and once a leg's
\* stream has yielded an error the error event is produced and the task is over.
C2_NothingAfterError ==
  /\ \A i \in Positions(produced, {"error"}) : i = Len(produced)
  /\ legError # {} =>
       /\ taskPc = "finished"
       /\ produced # <<>>
       /\ Last(produced).kind = "error"

C2_Witness ==
  /\ legError = {"target"}
  /\ Positions(produced, {"reasoning"}) # {}
  /\ Positions(produced, {"target"}) # {}
  /\ Last(produced).kind = "error"

NoReasoningContent(r) ==
  \/ r.choices = <<>>
  \/ ~IsSome(r.choices[1].message.reasoning_content)
  \/ Unwrap(r.choices[1].message.reasoning_content) = <<>>

\* C4: in blocking mode, when the reasoning adapter's response carries no
\* reasoning content, the request fails with the missing-content error and the
\* target adapter is not called.
C4_MissingReasoningFails ==
  (/\ ~request.stream
   /\ dsCalls = 1
   /\ DeepSeekChat(dsNet).ok
   /\ NoReasoningContent(DeepSeekChat(dsNet).val))
    => /\ pc = "responded"
       /\ response = ErrorResponse(MissingContent)
       /\ targetCalls = 0

\* C5 as stated: in blocking mode, after an answer with a non-success status the
\* request has failed with an error whose message is the upstream body text, and
\* the target adapter was not called.
C5_ErrorCarriesBody ==
  (~request.stream /\ dsCalls = 1 /\ dsNet.send = "ok" /\ ~IsSuccess(dsNet.status))
    => /\ pc = "responded"
       /\ response.kind = "error"
       /\ IsSome(dsNet.body)
       /\ response.err.message = Unwrap(dsNet.body)
       /\ targetCalls = 0

\* C5, amended: in blocking mode, after an answer with a non-success status the
\* request has failed with the reasoning adapter's api_error, whose message is
\* the upstream body text, or "Unknown error" when the body cannot be read, and
\* the target adapter was not called.
C5_ErrorCarriesBodyOrUnknown ==
  (~request.stream /\ dsCalls = 1 /\ dsNet.send = "ok" /\ ~IsSuccess(dsNet.status))
    => /\ pc = "responded"
       /\ response =
            ErrorResponse(ApiError("DeepSeekError", "api_error",
                                   IF IsSome(dsNet.body) THEN Unwrap(dsNet.body)
                                   ELSE <<"Unknown error">>))
       /\ targetCalls = 0

C5_Witness ==
  /\ ~request.stream
  /\ dsNet.status = 401
  /\ IsSome(dsNet.body)
  /\ response.kind = "error"
  /\ response.err.message = <<"unauthorized">>
  /\ targetCalls = 0

\* C6: in streaming mode, after the reasoning provider answered with a
\* non-success status the target adapter is not called, [DONE] is not produced,
\* and the task ends with an error event.
C6_StreamingStatusFails ==
  (request.stream /\ dsNet.send = "ok" /\ ~IsSuccess(dsNet.status))
    => /\ targetCalls = 0
       /\ Positions(produced, {"done"}) = {}
       /\ taskPc = "finished" => Positions(produced, {"error"}) # {}

\* C7: once the receiver is dropped nothing is buffered and no send waits (the
\* sends fail and the failures are ignored), and the task is not cancelled: it
\* ends only after the target adapter was called, unless the reasoning stream
\* yielded an error, and ends with [DONE] produced unless a stream yielded an
\* error.
C7_DisconnectDoesNotCancel ==
  /\ ~rxAlive => chan = <<>> /\ outbox = <<>>
  /\ (taskPc = "finished" /\ "reasoning" \notin legError) => targetCalls = 1
  /\ (taskPc = "finished" /\ legError = {}) => Last(produced) = DoneEvent

\* The client left after the reasoning phase had begun and before its end; the
\* task went on to call the target adapter and to its end.
C7_Witness ==
  /\ response = SseResponse
  /\ ~rxAlive
  /\ received # <<>>
  /\ Positions(received, {"close", "target", "done", "error"}) = {}
  /\ taskPc = "finished"
  /\ targetCalls = 1
  /\ Last(produced) = DoneEvent

\* C8: the message list handed to the target adapter holds no System message.
C8_NoSystemToTarget == targetCalls > 0 => ~HasSystem(target_messages)

\* The reasoning text collected for the current request
CollectedReasoning ==
  IF request.stream THEN complete_reasoning
  ELSE Unwrap(ReasoningContent(DeepSeekChat(dsNet).val))

\* content is the text r enclosed in one pair of reasoning tags
EnclosedOnce(content, r) ==
  \E tags \in {<<ThinkOpen, ThinkClose>>, <<ThinkingOpen, ThinkingClose>>} :
    \/ content = tags[1] \o NL \o r \o NL \o tags[2]
    \/ content = r /\ StartsWith(r, tags[1]) /\ EndsWith(r, tags[2])

\* C9: the message list handed to the target adapter is the caller's non-System
\* messages, in order, followed by one Assistant message whose content is the
\* collected reasoning text enclosed in one pair of reasoning tags.
C9_TargetMessages ==
  targetCalls > 0 =>
    /\ Len(target_messages) = Len(RetainNonSystem(request.messages)) + 1
    /\ SubSeq(target_messages, 1, Len(target_messages) - 1)
         = RetainNonSystem(request.messages)
    /\ Last(target_messages).role = "assistant"
    /\ EnclosedOnce(Last(target_messages).content, CollectedReasoning)

\* The text s holds a start marker before an end marker
HasMarkerPair(s) ==
  /\ IsSome(Find(s, ThinkOpen))
  /\ IsSome(Find(s, ThinkClose))
  /\ Unwrap(Find(s, ThinkOpen)) < Unwrap(Find(s, ThinkClose))

\* s without its first start marker and its first end marker
RemoveMarkers(s) ==
  LET a == Unwrap(Find(s, ThinkOpen))
      b == Unwrap(Find(s, ThinkClose))
  IN SubSeq(s, 1, a) \o SubSeq(s, a + 7 + 1, b) \o SubSeq(s, b + 8 + 1, Len(s))

CountOf(c, s) == Cardinality({i \in 1..Len(s) : s[i] = c})

\* C10: when the reasoning stream has ended and the increments held a start
\* marker before an end marker, the reasoning collected, the residual text of
\* the extractions and the text left in the scanning buffer hold together each
\* character exactly as often as the increments' concatenation without the two
\* markers: no character is dropped and none is duplicated.
C10_ExtractorLossless ==
  (taskPc = "target" /\ HasMarkerPair(fedText)) =>
    \A i \in 1..Len(fedText) :
      CountOf(fedText[i], complete_reasoning \o residualOut \o current_chunk)
        = CountOf(fedText[i], RemoveMarkers(fedText))

\* The text <think>A</think>B
TextAB == ThinkOpen \o <<"A">> \o ThinkClose \o <<"B">>

\* C11: when the text <think>A</think>B has been streamed in increments, however
\* it was cut, the reasoning collected is "A" and the text outside the markers
\* (the residual of the extractions and what is left in the scanning buffer)
\* is "B".
C11_SplitExtraction ==
  (taskPc = "target" /\ fedText = TextAB) =>
    /\ complete_reasoning = <<"A">>
    /\ residualOut \o current_chunk = <<"B">>

\* Two increments, the cut inside the start marker or right after it: the
\* extraction is the one of the scanning buffer, and nothing was forwarded
\* before it.
C11_Witness ==
  /\ taskPc = "target"
  /\ fedText = TextAB
  /\ nReasoning = 2
  /\ complete_reasoning = <<"A">>
  /\ residualOut = <<"B">>
  /\ Positions(produced, {"reasoning"}) = {}

------------------------------------------------------------------------------
\* The frame decoders of DeepSeekClient::chat_stream and OpenAIClient::chat_stream
\* on the byte stream of a response.  Bytes are ASCII characters and the two
\* bytes "c3" "a9" of the character "E"; "FFFD" is the replacement character.

\* String::from_utf8_lossy on one network chunk
RECURSIVE Utf8Lossy(_)
Utf8Lossy(bytes) ==
  IF bytes = <<>> THEN <<>>
  ELSE IF Len(bytes) >= 2 /\ bytes[1] = "c3" /\ bytes[2] = "a9"
    THEN <<"E">> \o Utf8Lossy(SubSeq(bytes, 3, Len(bytes)))
  ELSE IF bytes[1] \in {"c3", "a9"}
    THEN <<"FFFD">> \o Utf8Lossy(Tail(bytes))
  ELSE <<bytes[1]>> \o Utf8Lossy(Tail(bytes))

\* "\n\n"
Delimiter == <<"\n", "\n">>

\* "data: "
DataPrefix == <<"d", "a", "t", "a", ":", " ">>

\* "[DONE]"
DoneText == <<"[", "D", "O", "N", "E", "]">>

\* The characters of a payload that parses as a StreamResponse
PayloadChars == {"1", "2", "E", "FFFD"}

\* serde_json::from_str::<StreamResponse>(json_data): the chunk, whose text is
\* the payload, or None when the payload does not parse.  The DeepSeek decoder
\* applies process_ollama_content to the chunk.
ParseStreamResponse(kind, json_data) ==
  LET t == Trim(json_data)
  IN IF t = <<>> \/ \E i \in 1..Len(t) : t[i] \notin PayloadChars THEN None
     ELSE IF kind = "deepseek"
       THEN Some(StreamProcessOllama(SChunk("fp_x", Some(AMessage(None, Some(t))), None)))
     ELSE Some([choices |-> <<[content |-> Some(t)]>>])

\* The inner loop leaving at a payload that does not parse.
RECURSIVE DecodeFramesStopAtMalformed(_, _, _)
DecodeFramesStopAtMalformed(kind, data, r) ==
  LET found == Find(SubSeq(data, r.start + 1, Len(data)), Delimiter)
  IN IF ~IsSome(found) THEN r
     ELSE LET end == r.start + Unwrap(found)
              line == Trim(SubSeq(data, r.start + 1, end))
              json_data == SubSeq(line, Len(DataPrefix) + 1, Len(line))
              next == [r EXCEPT !.start = end + 2, !.frames = r.frames + 1]
          IN IF ~StartsWith(line, DataPrefix)
               THEN DecodeFramesStopAtMalformed(kind, data, next)
             ELSE IF kind = "deepseek" /\ Trim(json_data) = DoneText
               THEN [next EXCEPT !.sentinel = TRUE]
             ELSE IF IsSome(ParseStreamResponse(kind, json_data))
               THEN DecodeFramesStopAtMalformed(kind, data,
                      [next EXCEPT !.out =
                         Append(r.out, Ok(Unwrap(ParseStreamResponse(kind, json_data))))])
             ELSE next

\* The inner loop over the frames of data from start on: r is
\* [start, out, frames, sentinel]
RECURSIVE DecodeFrames(_, _, _)
DecodeFrames(kind, data, r) ==
  LET found == Find(SubSeq(data, r.start + 1, Len(data)), Delimiter)
  IN IF ~IsSome(found) THEN r
     ELSE LET end == r.start + Unwrap(found)
              line == Trim(SubSeq(data, r.start + 1, end))
              json_data == SubSeq(line, Len(DataPrefix) + 1, Len(line))
              next == [r EXCEPT !.start = end + 2, !.frames = r.frames + 1]
          IN IF ~StartsWith(line, DataPrefix) THEN DecodeFrames(kind, data, next)
             ELSE IF kind = "deepseek" /\ Trim(json_data) = DoneText
               THEN [next EXCEPT !.sentinel = TRUE]
             ELSE IF IsSome(ParseStreamResponse(kind, json_data))
               THEN DecodeFrames(kind, data,
                      [next EXCEPT !.out =
                         Append(r.out, Ok(Unwrap(ParseStreamResponse(kind, json_data))))])
             ELSE DecodeFrames(kind, data, next)

\* The body of the outer loop on one network chunk: d is a decoder's record
DecodeStep(kind, d, chunk) ==
  LET data == d.data \o Utf8Lossy(chunk)
      r == DecodeFrames(kind, data,
                        [start |-> 0, out |-> <<>>, frames |-> 0, sentinel |-> FALSE])
  IN [d EXCEPT !.pos = d.pos + 1,
               !.data = IF r.start > 0 THEN SubSeq(data, r.start + 1, Len(data)) ELSE data,
               !.yielded = d.yielded \o r.out,
               !.frames = d.frames + r.frames,
               !.sentinel = d.sentinel \/ r.sentinel]

\* let mut data = String::new(): a run of the decoder before its first chunk
NewDecoder ==
  [state |-> "open", pos |-> 0, data |-> <<>>, yielded |-> <<>>, frames |-> 0,
   sentinel |-> FALSE]

\* The ways of cutting text into at most n non-empty chunks
RECURSIVE Splits(_, _)
Splits(text, n) ==
  IF n <= 1 \/ Len(text) <= 1 THEN {<<text>>}
  ELSE {<<text>>} \cup
       UNION { { <<SubSeq(text, 1, k)>> \o rest :
                   rest \in Splits(SubSeq(text, k + 1, Len(text)), n - 1) } :
               k \in 1..(Len(text) - 1) }

Frame(payload) == DataPrefix \o payload \o Delimiter

\* The byte streams of the responses
WireTexts ==
  { Frame(<<"1">>) \o Frame(<<"2">>),
    Frame(<<"1">>) \o Frame(DoneText) \o Frame(<<"2">>),
    Frame(<<"x">>) \o Frame(<<"1">>),
    Frame(<<"c3", "a9">>),
    Frame(<<"1">>) \o DataPrefix \o <<"2">>,
    Frame(<<"1">>) \o Frame(<<"x">>) \o Frame(<<"2">>),
    <<" ">> \o DataPrefix \o <<"1", " ", "\n", "\n", "\n">> \o Frame(<<"2">>) }

InitDecode ==
  /\ feed = <<>>
  /\ Fresh(FeedRequest, FeedHeaders)
  /\ decoder \in {"deepseek", "openai"}
  /\ netChunks \in UNION {Splits(t, MaxNetChunks) : t \in WireTexts}
  /\ netFail \in BOOLEAN
  /\ netSetup \in {"ok", "invalid_token", "invalid_header", "send_failed"}
  /\ dec = <<>>
  /\ NoBuilding

\* A run of the decoder whose data is what the run before it left
DecodeStartShared ==
  /\ \A i \in 1..Len(dec) : dec[i].state = "ended"
  /\ Len(dec) < 2
  /\ dec' = Append(dec, [NewDecoder EXCEPT
                           !.data = IF dec = <<>> THEN <<>> ELSE dec[Len(dec)].data])
  /\ UNCHANGED <<handlerVars, buildVars, decoder, netChunks, netFail, netSetup>>

\* build_headers of an adapter: the Authorization value does not parse, or a
\* custom header's name or value does not
BuildHeaders(setup) ==
  IF setup = "invalid_token"
    THEN Err(ApiError("Internal", "", <<"Invalid API token">>))
  ELSE IF setup = "invalid_header"
    THEN Err(ApiError("BadRequest", "", <<"Invalid header">>))
  ELSE Ok(<<"Authorization", "Content-Type", "Accept">>)

\* The error kind of an adapter
AdapterError(kind) == IF kind = "deepseek" THEN "DeepSeekError" ELSE "OpenAIError"

\* A run whose failed set-up yields its error and leaves the stream open.
DecodeStartErrorThenOpen ==
  /\ \A i \in 1..Len(dec) : dec[i].state = "ended"
  /\ Len(dec) < 2
  /\ dec' = Append(dec,
                   IF ~BuildHeaders(netSetup).ok
                     THEN [NewDecoder EXCEPT !.yielded = <<BuildHeaders(netSetup)>>]
                   ELSE IF netSetup = "send_failed"
                     THEN [NewDecoder EXCEPT
                             !.yielded = <<Err(RequestFailed(AdapterError(decoder)))>>]
                   ELSE NewDecoder)
  /\ UNCHANGED <<handlerVars, buildVars, decoder, netChunks, netFail, netSetup>>

\* chat_stream is called and the stream is polled up to the provider's answer:
\* a new run of the decoder on the byte stream (a second run after the first
\* has ended).  When build_headers fails the stream is once(Err(e)); when
\* send() fails the stream yields that error and ends.
DecodeStart ==
  /\ \A i \in 1..Len(dec) : dec[i].state = "ended"
  /\ Len(dec) < 2
  /\ dec' = Append(dec,
                   IF ~BuildHeaders(netSetup).ok
                     THEN [NewDecoder EXCEPT !.state = "ended",
                                             !.yielded = <<BuildHeaders(netSetup)>>]
                   ELSE IF netSetup = "send_failed"
                     THEN [NewDecoder EXCEPT
                             !.state = "ended",
                             !.yielded = <<Err(RequestFailed(AdapterError(decoder)))>>]
                   ELSE NewDecoder)
  /\ UNCHANGED <<handlerVars, buildVars, decoder, netChunks, netFail, netSetup>>

\* stream.next() gives the next network chunk
DecodeChunk ==
  /\ dec # <<>>
  /\ LET d == dec[Len(dec)]
     IN /\ d.state = "open"
        /\ d.pos < Len(netChunks)
        /\ dec' = [dec EXCEPT ![Len(dec)] = DecodeStep(decoder, d, netChunks[d.pos + 1])]
  /\ UNCHANGED <<handlerVars, buildVars, decoder, netChunks, netFail, netSetup>>

\* An end of the stream that takes what is left in data as a last frame.
DecodeEndFlush ==
  /\ dec # <<>>
  /\ LET d == dec[Len(dec)]
         r == DecodeFrames(decoder, d.data \o Delimiter,
                           [start |-> 0, out |-> <<>>, frames |-> 0, sentinel |-> FALSE])
     IN /\ d.state = "open"
        /\ d.pos = Len(netChunks)
        /\ dec' = [dec EXCEPT ![Len(dec)] =
                     [d EXCEPT !.state = "ended",
                               !.yielded = IF netFail
                                             THEN Append(d.yielded,
                                                         Err(StreamError(AdapterError(decoder))))
                                             ELSE d.yielded \o r.out]]
  /\ UNCHANGED <<handlerVars, buildVars, decoder, netChunks, netFail, netSetup>>

\* stream.next() gives None, or an error that the decoder yields as its last item
DecodeEnd ==
  /\ dec # <<>>
  /\ LET d == dec[Len(dec)]
     IN /\ d.state = "open"
        /\ d.pos = Len(netChunks)
        /\ dec' = [dec EXCEPT ![Len(dec)] =
                     [d EXCEPT !.state = "ended",
                               !.yielded = IF netFail
                                             THEN Append(d.yielded,
                                                         Err(StreamError(
                                                           IF decoder = "deepseek"
                                                             THEN "DeepSeekError"
                                                             ELSE "OpenAIError")))
                                             ELSE d.yielded]]
  /\ UNCHANGED <<handlerVars, buildVars, decoder, netChunks, netFail, netSetup>>

DecodeNext ==
  \/ DecodeStart
  \/ DecodeChunk
  \/ DecodeEnd

SpecDecode == InitDecode /\ [][DecodeNext]_vars

------------------------------------------------------------------------------
\* build_request of the DeepSeek and the OpenAI adapter.  A JSON object is a
\* function from its keys to JSON values; a JSON value is a record with its
\* type t.

JStr(v) == [t |-> "string", v |-> v]

JNum(v) == [t |-> "number", v |-> v]

JBool(b) == [t |-> "bool", v |-> IF b THEN "true" ELSE "false"]

JNull == [t |-> "null"]

\* Vec<Message> as a JSON value
JMessages(msgs) == [t |-> "messages", items |-> msgs]

\* {"type": "text"}
JResponseFormat == [t |-> "object", v |-> "type:text"]

\* ApiConfig.body: a JSON object, or a value that is not an object
JObject(map) == [object |-> TRUE, map |-> map]

JNotObject == [object |-> FALSE, map |-> <<>>]

\* serde_json::Value::get: None on a value that is not an object
BodyGet(body, key) ==
  IF body.object /\ key \in DOMAIN body.map THEN Some(body.map[key]) ELSE None

UnwrapOr(o, default) == IF IsSome(o) THEN Unwrap(o) ELSE default

\* Map::remove
MapRemove(map, keys) == [k \in DOMAIN map \ keys |-> map[k]]

\* for (key, value) in body { map.insert(key, value) }
MapMerge(map, body) ==
  [k \in DOMAIN map \cup DOMAIN body |-> IF k \in DOMAIN body THEN body[k] ELSE map[k]]

\* The fixed System message DeepSeekClient::build_request puts first
PolicyMessage == Message("system", <<"policy">>)

\* The json! base of the request, then the merge of config.body without its
\* stream and messages
RequestValue(adapter, msgs, stream, body) ==
  LET base ==
        IF adapter = "deepseek"
          THEN [k \in {"messages", "stream", "model", "max_tokens", "temperature",
                       "response_format"} |->
                  CASE k = "messages" -> JMessages(<<PolicyMessage>> \o msgs)
                    [] k = "stream" -> JBool(stream)
                    [] k = "model" -> UnwrapOr(BodyGet(body, k), JStr("deepseek-reasoner"))
                    [] k = "max_tokens" -> UnwrapOr(BodyGet(body, k), JNum("8192"))
                    [] k = "temperature" -> UnwrapOr(BodyGet(body, k), JNum("0.7"))
                    [] OTHER -> JResponseFormat]
          ELSE [k \in {"messages", "stream", "model", "max_tokens", "temperature"} |->
                  CASE k = "messages" -> JMessages(msgs)
                    [] k = "stream" -> JBool(stream)
                    [] k = "model" -> UnwrapOr(BodyGet(body, k), JStr("gpt-3.5-turbo"))
                    [] k = "max_tokens" -> UnwrapOr(BodyGet(body, k), JNum("4096"))
                    [] OTHER -> UnwrapOr(BodyGet(body, k), JNum("1.0"))]
  IN IF body.object THEN MapMerge(base, MapRemove(body.map, {"stream", "messages"}))
     ELSE base

\* serde_json::from_value into DeepSeekRequest { messages, stream, system:
\* Option<String>, #[serde(flatten)] additional_params } or OpenAIRequest
\* { messages, stream, #[serde(flatten)] additional_params }: None when a field
\* does not take the value's type
FromValue(adapter, value) ==
  LET named == IF adapter = "deepseek" THEN {"messages", "stream", "system"}
               ELSE {"messages", "stream"}
      system == IF adapter = "deepseek" /\ "system" \in DOMAIN value
                     /\ value["system"].t = "string"
                  THEN Some(value["system"]) ELSE None
  IN IF adapter = "deepseek" /\ "system" \in DOMAIN value
          /\ value["system"].t \notin {"string", "null"}
       THEN None
       ELSE Some([messages |-> value["messages"], stream |-> value["stream"],
                  system |-> system,
                  additional_params |-> JObject(MapRemove(value, named))])

\* build_request: the request struct
BuildRequest(adapter, msgs, stream, body) ==
  LET parsed == FromValue(adapter, RequestValue(adapter, msgs, stream, body))
  IN IF IsSome(parsed) THEN Unwrap(parsed)
     ELSE [messages |-> JMessages(msgs), stream |-> JBool(stream), system |-> None,
           additional_params |-> body]

\* .json(&request): the entries of the JSON body that is sent, as <<key, value>>;
\* the flattened additional_params come after the struct's own fields
Serialize(req) ==
  {<<"messages", req.messages>>, <<"stream", req.stream>>}
  \cup (IF IsSome(req.system) THEN {<<"system", Unwrap(req.system)>>} ELSE {})
  \cup (IF req.additional_params.object
          THEN {<<k, req.additional_params.map[k]>> : k \in DOMAIN req.additional_params.map}
          ELSE {})

\* The keys a caller's config.body may hold, with the caller's values
BodyKeys == {"model", "max_tokens", "temperature", "stream", "messages", "top_p"}

CallerValue(k) ==
  CASE k = "model" -> JStr("caller-model")
    [] k = "max_tokens" -> JNum("16")
    [] k = "temperature" -> JNum("0")
    [] k = "stream" -> JBool(TRUE)
    [] k = "messages" -> JStr("caller-messages")
    [] OTHER -> JNum("1")

\* The config.body values: not an object, or an object over some of BodyKeys,
\* with or without a "system" entry (a string, a number or null)
Bodies ==
  {JNotObject} \cup
  { JObject([k \in keys |-> CallerValue(k)]) : keys \in SUBSET BodyKeys } \cup
  { JObject([k \in keys \cup {"system"} |-> IF k = "system" THEN sys ELSE CallerValue(k)]) :
      keys \in SUBSET BodyKeys, sys \in {JStr("s"), JNum("5"), JNull} }

\* A header value is text, here a sequence of its parts; a line break is not
\* valid in a header value (HeaderValue::from_str)
IsValidHeaderValue(value) == \A i \in 1..Len(value) : value[i] # "\n"

\* HeaderName::from_bytes: the name in lower case, None for a name with a
\* character that is not a token character
HeaderNameFromBytes(key) ==
  CASE key = "Authorization" -> Some("authorization")
    [] key = "X-Trace" -> Some("x-trace")
    [] OTHER -> None

\* The custom headers without the ones that are not valid header text.
ModBuildHeadersSkipInvalid(custom) ==
  LET good == {k \in DOMAIN custom :
                 HeaderNameFromBytes(k) # None /\ IsValidHeaderValue(custom[k])}
      names == {Unwrap(HeaderNameFromBytes(k)) : k \in good}
  IN {Ok([n \in names |-> custom[CHOOSE k \in good : HeaderNameFromBytes(k) = Some(n)]])}

\* clients::build_headers: the custom headers as a HeaderMap.  The HashMap is
\* iterated in an arbitrary order, so with several invalid entries any of their
\* errors can be the one returned: the set of the possible results.
ModBuildHeaders(custom) ==
  LET badName == {k \in DOMAIN custom : HeaderNameFromBytes(k) = None}
      badValue == {k \in DOMAIN custom \ badName : ~IsValidHeaderValue(custom[k])}
      names == {Unwrap(HeaderNameFromBytes(k)) : k \in DOMAIN custom \ badName}
  IN IF badName \cup badValue = {}
       THEN {Ok([n \in names |->
                   custom[CHOOSE k \in DOMAIN custom : HeaderNameFromBytes(k) = Some(n)]])}
       ELSE {Err(ApiError("BadRequest", "", <<"Invalid header name: ", "e">>)) :
               k \in badName}
            \cup {Err(ApiError("BadRequest", "", <<"Invalid header value: ", "e">>)) :
                    k \in badValue}

\* build_headers of DeepSeekClient and of OpenAIClient: Authorization,
\* Content-Type and Accept are inserted, then the map is extended with the
\* custom headers; HeaderMap::extend replaces the value of a name that is
\* already in the map.
ClientBuildHeaders(api_token, custom_headers) ==
  LET base == [n \in {"authorization", "content-type", "accept"} |->
                 CASE n = "authorization" -> <<"Bearer ">> \o api_token
                   [] OTHER -> <<"application/json">>]
  IN IF ~IsValidHeaderValue(<<"Bearer ">> \o api_token)
       THEN {Err(ApiError("Internal", "", <<"Invalid API token: ", "e">>))}
       ELSE {IF r.ok THEN Ok(MapMerge(base, r.val)) ELSE r :
               r \in ModBuildHeaders(custom_headers)}

\* The custom headers a caller's config.headers may hold
CustomNames == {"Authorization", "X-Trace", "bad name"}

CustomValues == {<<"Bearer ", "t2">>, <<"v", "\n">>}

CustomHeaders == UNION {[names -> CustomValues] : names \in SUBSET CustomNames}

InitBuild ==
  /\ feed = <<>>
  /\ Fresh(FeedRequest, FeedHeaders)
  /\ NoDecoding
  /\ buildArgs \in [adapter : {"deepseek", "openai"},
                    api_token : {<<"t1">>},
                    messages : {MessagesOf(<<"user">>), MessagesOf(<<"user", "assistant", "user">>)},
                    stream : BOOLEAN,
                    body : Bodies,
                    headers : CustomHeaders]
  /\ builtRequest = None
  /\ builtHeaders = None
  /\ compatCall = <<>>
  /\ internal = <<>>

\* The adapter builds the headers and, when that succeeds, the request, and
\* hands both to the HTTP client; when build_headers fails the call returns
\* its error.
BuildAndSend ==
  /\ builtHeaders = None
  /\ \E h \in ClientBuildHeaders(buildArgs.api_token, buildArgs.headers) :
       /\ builtHeaders' = Some(h)
       /\ builtRequest' = IF h.ok
                            THEN Some(Serialize(BuildRequest(buildArgs.adapter,
                                                             buildArgs.messages,
                                                             buildArgs.stream,
                                                             buildArgs.body)))
                            ELSE None
  /\ UNCHANGED <<handlerVars, decodeVars, buildArgs, compatCall, internal>>

BuildNext == BuildAndSend

SpecBuild == InitBuild /\ [][BuildNext]_vars

\* The values the JSON body holds under key
ValuesOf(entries, key) == {e[2] : e \in {x \in entries : x[1] = key}}

\* The provider defaults of model, max_tokens and temperature
ProviderDefault(adapter, key) ==
  IF adapter = "deepseek"
    THEN CASE key = "model" -> JStr("deepseek-reasoner")
           [] key = "max_tokens" -> JNum("8192")
           [] OTHER -> JNum("0.7")
    ELSE CASE key = "model" -> JStr("gpt-3.5-turbo")
           [] key = "max_tokens" -> JNum("4096")
           [] OTHER -> JNum("1.0")

\* C13: in the JSON body of a built request stream is the adapter's stream
\* argument and messages is the adapter's message list (with the reasoning
\* adapter's System message first or without it), never config.body's value;
\* every other key of config.body is there with the caller's value; model,
\* max_tokens and temperature have the provider defaults when config.body
\* does not set them.
C13_BuildRequest ==
  IsSome(builtRequest) =>
    LET entries == Unwrap(builtRequest)
        a == buildArgs
        given == IF a.body.object THEN DOMAIN a.body.map ELSE {}
    IN /\ ValuesOf(entries, "stream") = {JBool(a.stream)}
       /\ \/ ValuesOf(entries, "messages") = {JMessages(a.messages)}
          \/ ValuesOf(entries, "messages") = {JMessages(<<PolicyMessage>> \o a.messages)}
       /\ \A k \in given \ {"stream", "messages"} :
            ValuesOf(entries, k) = {a.body.map[k]}
       /\ \A k \in {"model", "max_tokens", "temperature"} \ given :
            ValuesOf(entries, k) = {ProviderDefault(a.adapter, k)}

\* The reasoning call has failed upstream: the request could not be sent, the
\* provider answered with a status that is not a success, the byte stream
\* failed, or (blocking) the adapter returned an error
ReasoningLegFailed ==
  \/ dsNet.send = "failed"
  \/ dsNet.send = "ok" /\ ~IsSuccess(dsNet.status)
  \/ "reasoning" \in legError
  \/ ~request.stream /\ dsCalls = 1 /\ ~DeepSeekChat(dsNet).ok

\* C14: within one request the reasoning adapter is called at most once and the
\* target adapter at most once, and after an upstream failure of the reasoning
\* call the target adapter is not called.
C14_AtMostOneCallPerLeg ==
  /\ dsCalls <= 1
  /\ targetCalls <= 1
  /\ ReasoningLegFailed => targetCalls = 0

\* The elements of a content array that have a string type and a string text
WithTypeAndText(content) ==
  SelectSeq(content, LAMBDA b : IsSome(b.type) /\ IsSome(b.text))

\* The blocks after the first are one block per element of the content array
\* that has a type and a text, in array order
ArrayTargetBlocks(blocks, content) ==
  /\ Len(blocks) = 1 + Len(WithTypeAndText(content))
  /\ \A i \in 1..Len(WithTypeAndText(content)) :
       /\ blocks[i + 1].content_type = Unwrap(WithTypeAndText(content)[i].type)
       /\ blocks[i + 1].text = Unwrap(WithTypeAndText(content)[i].text)

\* C15 as stated: the content of a successful blocking response is the
\* reasoning block, then for the OpenAI-shaped target one text block holding
\* choices[0].message.content, for the content-array target one block per
\* element with a type and a text.
C15_ContentBlocks ==
  (pc = "responded" /\ response.kind = "json") =>
    /\ response.content[1] = ContentBlock("text", thinking_content)
    /\ IF target_model = "openai"
         THEN LET r == Unwrap(tgNet.parsed)
              IN /\ Len(response.content) = 2
                 /\ r.choices # <<>>
                 /\ IsSome(r.choices[1].content)
                 /\ response.content[2] = ContentBlock("text", Unwrap(r.choices[1].content))
         ELSE ArrayTargetBlocks(response.content, Unwrap(tgNet.parsed).content)

\* C15, amended: the content of a successful blocking response is the reasoning
\* block, then for the OpenAI-shaped target one text block holding
\* choices[0].message.content when there is a first choice with a content and
\* no block otherwise, for the content-array target one block per element with
\* a type and a text, in array order.
C15_ContentBlocksIfPresent ==
  (pc = "responded" /\ response.kind = "json") =>
    /\ response.content[1] = ContentBlock("text", thinking_content)
    /\ IF target_model = "openai"
         THEN LET r == Unwrap(tgNet.parsed)
              IN IF r.choices # <<>> /\ IsSome(r.choices[1].content)
                   THEN response.content =
                          <<ContentBlock("text", thinking_content),
                            ContentBlock("text", Unwrap(r.choices[1].content))>>
                   ELSE response.content = <<ContentBlock("text", thinking_content)>>
         ELSE ArrayTargetBlocks(response.content, Unwrap(tgNet.parsed).content)

\* A successful response of the OpenAI-shaped target whose first choice has no
\* content
C15_Witness ==
  /\ pc = "responded"
  /\ response.kind = "json"
  /\ target_model = "openai"
  /\ Unwrap(tgNet.parsed).choices # <<>>
  /\ ~IsSome(Unwrap(tgNet.parsed).choices[1].content)
  /\ Len(response.content) = 1

\* A response that is the structured error e and nothing else
OnlyError(r, e) == r = [kind |-> "error", err |-> e]

\* C16: in blocking mode, when the reasoning call or the target call has
\* failed, the request's result is that error alone: a response with no content
\* block; after a failed reasoning call the target adapter was not called.
C16_ErrorIsOnlyResult ==
  (~request.stream /\ pc = "responded") =>
    /\ (dsCalls = 1 /\ ~DeepSeekChat(dsNet).ok) =>
         /\ OnlyError(response, DeepSeekChat(dsNet).err)
         /\ targetCalls = 0
    /\ (targetCalls = 1 /\ target_model = "openai" /\ ~OpenAIChat(tgNet).ok) =>
         OnlyError(response, OpenAIChat(tgNet).err)
    /\ (targetCalls = 1 /\ target_model # "openai" /\ tgNet = NoAnswer) =>
         \E result \in AnthropicResults : ~result.ok /\ OnlyError(response, result.err)

\* The target call failed after a reasoning call that gave a reasoning text.
C16_Witness ==
  /\ ~request.stream
  /\ pc = "responded"
  /\ thinking_content # <<>>
  /\ targetCalls = 1
  /\ target_model = "openai"
  /\ tgNet.status = 401
  /\ response.kind = "error"

\* Nothing has been done upstream or on the stream: no adapter was called, no
\* channel and no task exist, no event was produced.
NothingStarted ==
  /\ dsCalls = 0
  /\ targetCalls = 0
  /\ taskPc = "none"
  /\ ~rxAlive
  /\ produced = <<>>
  /\ chan = <<>>
  /\ received = <<>>

\* C17: for a request that fails the system-prompt validation no adapter is
\* ever called, no channel is created, no task is spawned and no event is
\* produced, and the handler's response is the validation error.
C17_ValidationFailsFirst ==
  ~ValidateSystemPrompt(request) =>
    /\ NothingStarted
    /\ pc = "responded" => OnlyError(response, ApiError("InvalidSystemPrompt", "", <<>>))

C17_Witness ==
  /\ request.stream
  /\ ~ValidateSystemPrompt(request)
  /\ pc = "responded"
  /\ response.kind = "error"
  /\ headers.tokens = TokenHeaders

\* The token header that is required and absent, if any: the reasoning
\* provider's first, then the one of the target X-Target-Model selects
AbsentTokenHeader ==
  IF "X-DeepSeek-API-Token" \notin headers.tokens THEN Some("X-DeepSeek-API-Token")
  ELSE IF headers.target_model = Some("openai")
    THEN IF "X-OpenAI-API-Token" \notin headers.tokens THEN Some("X-OpenAI-API-Token")
         ELSE None
  ELSE IF "X-Anthropic-API-Token" \notin headers.tokens THEN Some("X-Anthropic-API-Token")
  ELSE None

------------------------------------------------------------------------------
\* The streaming handler with a reasoning stream long enough to fill the
\* channel: every chunk gives two events.

PressureChunk ==
  SChunk("fp_ollama", Some(AMessage(Some(ThinkOpen \o <<"a">>), Some(<<"r">>))), None)

InitPressure ==
  /\ feed = <<>>
  /\ NoDecoding
  /\ NoBuilding
  /\ Fresh(FeedRequest, FeedHeaders)

ReasoningPressureChunk ==
  /\ nReasoning < MaxPressureChunks
  /\ ReasoningChunk(PressureChunk)
  /\ UNCHANGED feed

\* The task is polled: its start, the connects, a waiting send
TaskProgress ==
  \/ TaskStart
  \/ DeepSeekConnect(StreamAnswer(200))
  \/ OpenAIConnect(StreamAnswer(200))
  \/ SendPending

\* An upstream stream ends or yields an error
StreamsEnd ==
  \/ ReasoningEnd
  \/ ReasoningStreamError
  \/ OpenAIEnd
  \/ OpenAIStreamError

\* An upstream stream yields a chunk
StreamsChunk ==
  \/ ReasoningPressureChunk
  \/ OpenAIChunk([choices |-> <<[content |-> Some(<<"t">>)]>>])

\* The steps of the client
ClientStep ==
  \/ ClientRecv
  \/ ClientDisconnect

PressureNext ==
  \/ ChatStreamEntry
  \/ TaskProgress
  \/ StreamsChunk
  \/ StreamsEnd
  \/ ClientStep

\* The runtime goes on polling the task, each upstream stream eventually ends or
\* yields an error, and the client goes on reading until it leaves.
SpecPressure ==
  /\ InitPressure
  /\ [][PressureNext]_vars
  /\ WF_vars(TaskProgress)
  /\ WF_vars(StreamsEnd)
  /\ WF_vars(ClientStep)

\* C19: the spawned task ends, with [DONE] or an error event as the last event
\* it produced, and a send that waits for room in the channel returns.
C19_TaskTerminates ==
  /\ (taskPc = "spawned") ~>
       (taskPc = "finished" /\ produced # <<>> /\ Last(produced).kind \in {"done", "error"})
  /\ (outbox # <<>>) ~> (outbox = <<>>)

\* The task has ended with the client attached after producing more events
\* than the channel holds.
C19_Witness ==
  /\ taskPc = "finished"
  /\ rxAlive
  /\ Len(produced) > ChannelCapacity
  /\ Last(produced) = DoneEvent

\* C20: the channel never holds more events than its capacity, a send waits
\* only while the client is attached, and while the client is attached the
\* events received, buffered and waiting are exactly the events produced, in
\* order: none is dropped and none is duplicated.
C20_ChannelBounded ==
  /\ Len(chan) <= ChannelCapacity
  /\ outbox # <<>> => rxAlive
  /\ rxAlive => received \o chan \o outbox = produced

\* The channel is full and the producer's send waits.
C20_Witness ==
  /\ rxAlive
  /\ Len(chan) = ChannelCapacity
  /\ outbox # <<>>

------------------------------------------------------------------------------
\* Properties of the frame decoders

\* The text a decoder has appended to its data after all the network chunks
RECURSIVE DecodedText(_)
DecodedText(chunks) ==
  IF chunks = <<>> THEN <<>>
  ELSE Utf8Lossy(Head(chunks)) \o DecodedText(Tail(chunks))

\* The Ok items of a sequence of yielded items
OkItems(items) == SelectSeq(items, LAMBDA x : x.ok)

\* The chunks of the data frames of text that parse, in order, up to the first
\* frame whose payload is the sentinel
RECURSIVE FramesUntilSentinel(_, _)
FramesUntilSentinel(kind, text) ==
  LET found == Find(text, Delimiter)
  IN IF ~IsSome(found) THEN <<>>
     ELSE LET line == Trim(SubSeq(text, 1, Unwrap(found)))
              rest == SubSeq(text, Unwrap(found) + 3, Len(text))
              json_data == SubSeq(line, Len(DataPrefix) + 1, Len(line))
          IN IF ~StartsWith(line, DataPrefix) THEN FramesUntilSentinel(kind, rest)
             ELSE IF Trim(json_data) = DoneText THEN <<>>
             ELSE IF IsSome(ParseStreamResponse(kind, json_data))
               THEN <<Ok(Unwrap(ParseStreamResponse(kind, json_data)))>>
                      \o FramesUntilSentinel(kind, rest)
             ELSE FramesUntilSentinel(kind, rest)

\* C21: the chunks a frame decoder has yielded are always a prefix of the chunks
\* of the frames that come before the first sentinel frame of the byte stream:
\* nothing is yielded for the sentinel or for a frame after it, in the same
\* network chunk or in a later one.
C21_NothingAfterSentinel ==
  \A i \in 1..Len(dec) :
    IsPrefix(OkItems(dec[i].yielded),
             FramesUntilSentinel(decoder, DecodedText(netChunks)))

\* The chunks of all the data frames of text that parse, in order
RECURSIVE ParsedFrames(_, _)
ParsedFrames(kind, text) ==
  LET found == Find(text, Delimiter)
  IN IF ~IsSome(found) THEN <<>>
     ELSE LET line == Trim(SubSeq(text, 1, Unwrap(found)))
              rest == SubSeq(text, Unwrap(found) + 3, Len(text))
              json_data == SubSeq(line, Len(DataPrefix) + 1, Len(line))
          IN IF StartsWith(line, DataPrefix) /\ IsSome(ParseStreamResponse(kind, json_data))
               THEN <<Ok(Unwrap(ParseStreamResponse(kind, json_data)))>>
                      \o ParsedFrames(kind, rest)
             ELSE ParsedFrames(kind, rest)

\* C22: when a run of a frame decoder has read the whole byte stream, every
\* data frame before the first sentinel whose payload parses has been yielded,
\* and what was yielded are chunks of data frames that parse, once each and in
\* arrival order, whatever unparseable frames lie among them; the only error
\* element there can be is the one of a failed request or byte stream, as the
\* last element.
C22_MalformedFrameSkipped ==
  \A i \in 1..Len(dec) :
    (dec[i].state = "ended" /\ dec[i].pos = Len(netChunks)) =>
      LET text == DecodedText(netChunks)
          yielded == dec[i].yielded
      IN /\ IsPrefix(FramesUntilSentinel(decoder, text), OkItems(yielded))
         /\ IsPrefix(OkItems(yielded), ParsedFrames(decoder, text))
         /\ \A k \in 1..Len(yielded) : ~yielded[k].ok => ((netFail \/ netSetup # "ok") /\ k = Len(yielded))

\* A run has ended on a healthy byte stream, cut into several network chunks,
\* that has an unparseable data frame between two frames that parse: both were
\* yielded.
C22_Witness ==
  /\ dec # <<>>
  /\ dec[1].state = "ended"
  /\ ~netFail
  /\ Len(netChunks) > 1
  /\ DecodedText(netChunks) = Frame(<<"1">>) \o Frame(<<"x">>) \o Frame(<<"2">>)
  /\ dec[1].frames = 3
  /\ Len(dec[1].yielded) = 2

\* The number of delimiters of text, scanned from the left
RECURSIVE CountDelimiters(_)
CountDelimiters(text) ==
  LET found == Find(text, Delimiter)
  IN IF ~IsSome(found) THEN 0
     ELSE 1 + CountDelimiters(SubSeq(text, Unwrap(found) + 3, Len(text)))

\* The text after the last delimiter of text, scanned from the left
RECURSIVE AfterLastDelimiter(_)
AfterLastDelimiter(text) ==
  LET found == Find(text, Delimiter)
  IN IF ~IsSome(found) THEN text
     ELSE AfterLastDelimiter(SubSeq(text, Unwrap(found) + 3, Len(text)))

\* C23: after each network chunk a frame decoder has taken one frame for every
\* delimiter of the text received so far, and its carry-over is exactly the text
\* after the last delimiter, so it holds no complete delimiter.
C23_CarryOver ==
  \A i \in 1..Len(dec) :
    LET d == dec[i]
        text == DecodedText(SubSeq(netChunks, 1, d.pos))
    IN /\ d.frames = CountDelimiters(text)
       /\ d.data = AfterLastDelimiter(text)
       /\ ~Contains(d.data, Delimiter)

\* C24: when build_headers fails or the request cannot be sent, the sequence of
\* chat_stream is one element, the error, and has ended: no chunk is yielded,
\* whatever bytes the provider would have sent.
C24_SetupFailureYieldsOneError ==
  \A i \in 1..Len(dec) :
    netSetup # "ok" =>
      /\ dec[i].state = "ended"
      /\ Len(dec[i].yielded) = 1
      /\ ~dec[i].yielded[1].ok
      /\ dec[i].yielded[1].err.kind =
           IF netSetup = "invalid_token" THEN "Internal"
           ELSE IF netSetup = "invalid_header" THEN "BadRequest"
           ELSE AdapterError(decoder)
      /\ dec[i].pos = 0

\* The request of the OpenAI adapter could not be sent, and its sequence was
\* polled: one error element, request_failed.
C24_Witness ==
  /\ dec # <<>>
  /\ decoder = "openai"
  /\ netSetup = "send_failed"
  /\ dec[1].yielded = <<Err(RequestFailed("OpenAIError"))>>
  /\ dec[1].state = "ended"
  /\ Len(netChunks) > 1

------------------------------------------------------------------------------
\* Properties of the reasoning phase of chat_stream

\* The opening marker is only ever the first event, there is at most one closing
\* marker, every reasoning increment lies before it and every target increment
\* after it.
MarkerOrder ==
  /\ Positions(produced, {"open"}) \subseteq {1}
  /\ produced # <<>> => produced[1] = OpeningEvent
  /\ Cardinality(Positions(produced, {"close"})) <= 1
  /\ \A c \in Positions(produced, {"close"}) :
       /\ \A r \in Positions(produced, {"reasoning"}) : r < c
       /\ \A t \in Positions(produced, {"target"}) : c < t
  /\ Positions(produced, {"target"}) # {} => Positions(produced, {"close"}) # {}

\* C25 as stated: the markers are in order, and a finished task has emitted the
\* opening marker once and the closing marker once.
C25_MarkersOnce ==
  /\ MarkerOrder
  /\ taskPc = "finished" =>
       /\ Cardinality(Positions(produced, {"open"})) = 1
       /\ Cardinality(Positions(produced, {"close"})) = 1

\* C25: the markers are in order, and a finished task has emitted the opening
\* marker once, and the closing marker once when the reasoning stream ended
\* without an error and not at all when it yielded an error.
C25_MarkersOnceUnlessError ==
  /\ MarkerOrder
  /\ taskPc = "finished" =>
       /\ Cardinality(Positions(produced, {"open"})) = 1
       /\ Cardinality(Positions(produced, {"close"})) =
            IF "reasoning" \in legError THEN 0 ELSE 1

\* A task has finished after reasoning increments and target increments.
C25_Witness ==
  /\ taskPc = "finished"
  /\ "reasoning" \notin legError
  /\ Cardinality(Positions(produced, {"reasoning"})) >= 2
  /\ Positions(produced, {"target"}) # {}
  /\ Last(produced) = DoneEvent

\* The trimmed texts of the marker spans of text, concatenated in order: each
\* span runs from a start marker to the next end marker after it
RECURSIVE SpansOf(_)
SpansOf(text) ==
  LET a == Find(text, ThinkOpen)
  IN IF ~IsSome(a) THEN <<>>
     ELSE LET rest == SubSeq(text, Unwrap(a) + 7 + 1, Len(text))
              b == Find(rest, ThinkClose)
          IN IF ~IsSome(b) THEN <<>>
             ELSE Trim(SubSeq(rest, 1, Unwrap(b)))
                    \o SpansOf(SubSeq(rest, Unwrap(b) + 8 + 1, Len(rest)))

\* C26: in streaming mode, once the target adapter has been invoked the
\* reasoning stream has ended and has yielded no error, the content of the
\* appended Assistant message is the reasoning accumulator between the
\* thinking tags, and the accumulator holds the marker spans of the increments
\* received in arrival order, from the first span on.
C26_TargetAfterReasoning ==
  (request.stream /\ targetCalls > 0) =>
    /\ dsStream = "done"
    /\ "reasoning" \notin legError
    /\ Last(target_messages) =
         Message("assistant",
                 ThinkingOpen \o NL \o complete_reasoning \o NL \o ThinkingClose)
    /\ IsPrefix(complete_reasoning, SpansOf(fedText))
    /\ SpansOf(fedText) # <<>> => complete_reasoning # <<>>

\* The trimmed text strictly between the first start marker and the first end
\* marker of s, whichever comes first
Between(s) ==
  LET a == Unwrap(Find(s, ThinkOpen))
      b == Unwrap(Find(s, ThinkClose))
  IN IF a < b THEN Trim(SubSeq(s, a + 7 + 1, b))
     ELSE Trim(SubSeq(s, b + 8 + 1, a))

\* C27: after each increment the pending buffer does not hold both markers
\* (it was cleared when it did), and once the increments hold both markers, in
\* either order, the accumulator is the trimmed text between them.
C27_BothMarkersExtracted ==
  /\ ~(Contains(current_chunk, ThinkOpen) /\ Contains(current_chunk, ThinkClose))
  /\ (Contains(fedText, ThinkOpen) /\ Contains(fedText, ThinkClose)) =>
       complete_reasoning = Between(fedText)

\* C28: whenever the accumulator holds text, the increments hold a start marker
\* before an end marker and the accumulator is the trimmed text of that first
\* pair: a pair that arrives later adds nothing.
C28_FirstPairWins ==
  complete_reasoning # <<>> =>
    /\ HasMarkerPair(fedText)
    /\ complete_reasoning = Between(fedText)

\* A step that ingests an increment holding no whole marker pair, after which
\* the pending buffer holds the start marker and not the end marker: the
\* increment is forwarded verbatim as one event, unless it is the start-marker
\* token, for which nothing is sent.
ForwardStep ==
  nReasoning' = nReasoning + 1 =>
    LET inc == SubSeq(fedText', Len(fedText) + 1, Len(fedText'))
        cur == current_chunk \o inc
    IN (/\ ~IsSome(ExtractThinkContent(inc))
        /\ Contains(cur, ThinkOpen)
        /\ ~Contains(cur, ThinkClose)) =>
         produced' = produced \o (IF inc = ThinkOpen THEN <<>>
                                  ELSE <<ReasoningEvent(inc)>>)

\* C29 as stated: the increments are forwarded so, and no reasoning increment
\* sent to the client holds the text of the start marker.
C29_StartMarkerNeverSent ==
  /\ [][ForwardStep]_vars
  /\ [](\A i \in Positions(produced, {"reasoning"}) :
          ~Contains(produced[i].text, ThinkOpen))

\* C29: the increments are forwarded so, and no reasoning increment sent to the
\* client is the start-marker token by itself.
C29_StartMarkerTokenNotSent ==
  /\ [][ForwardStep]_vars
  /\ [](\A i \in Positions(produced, {"reasoning"}) : produced[i].text # ThinkOpen)

\* The reasoning increments that were sent, in order
ReasoningEvents == SelectSeq(produced, LAMBDA e : e.kind = "reasoning")

\* The start-marker token came as an increment by itself and nothing was sent
\* for it; the next increment was forwarded.
C29_Witness ==
  /\ fedText = ThinkOpen \o <<"A">>
  /\ nReasoning = 2
  /\ current_chunk = fedText
  /\ ReasoningEvents = <<ReasoningEvent(<<"A">>)>>

\* A step that ingests a chunk whose delta, as the handler receives it, has a
\* non-empty reasoning_content: that text is appended to the accumulator and
\* nothing else is, it is the last event sent, the only other event there can
\* be is the forwarded content, and the pending buffer is what the content
\* makes of it.
DedicatedFieldStep ==
  nReasoning' = nReasoning + 1 =>
    LET inc == SubSeq(fedText', Len(fedText) + 1, Len(fedText'))
        delta == ProcessOllamaContent(AMessage(Some(inc), None), TRUE)
        content == Unwrap(delta.content)
    IN (IsSome(delta.reasoning_content) /\ Unwrap(delta.reasoning_content) # <<>>) =>
         LET reasoning == Unwrap(delta.reasoning_content)
         IN /\ complete_reasoning' = complete_reasoning \o reasoning
            /\ Last(produced') = ReasoningEvent(reasoning)
            /\ \/ produced' = produced \o <<ReasoningEvent(reasoning)>>
               \/ produced' = produced \o <<ReasoningEvent(content), ReasoningEvent(reasoning)>>
            /\ current_chunk' \in {current_chunk \o content, <<>>}

\* C30: a non-empty dedicated-field reasoning delta is appended unchanged to
\* the accumulator and forwarded as one event, and on its chunk marker scanning
\* adds nothing to the accumulator.
C30_DedicatedFieldOnly == [][DedicatedFieldStep]_vars

------------------------------------------------------------------------------
\* Properties of the two legs of chat_stream

\* C31: in streaming mode, when the reasoning leg has ended without an error
\* and the accumulator is empty, the closing marker has been emitted and the
\* target adapter invoked, once, with an Assistant message that wraps the empty
\* text; and when the task has finished without an error of the target leg its
\* last event is [DONE] and no error event was emitted.
C31_EmptyReasoningContinues ==
  (/\ request.stream
   /\ taskPc \in {"target", "finished"}
   /\ "reasoning" \notin legError
   /\ complete_reasoning = <<>>) =>
    /\ Cardinality(Positions(produced, {"close"})) = 1
    /\ targetCalls = 1
    /\ Last(target_messages) =
         Message("assistant", ThinkingOpen \o NL \o NL \o ThinkingClose)
    /\ (taskPc = "finished" /\ "target" \notin legError) =>
         /\ Last(produced) = DoneEvent
         /\ Positions(produced, {"error"}) = {}

\* A reasoning stream of two chunks that left the accumulator empty, then a
\* target leg that sent an increment and ended.
C31_Witness ==
  /\ request.stream
  /\ taskPc = "finished"
  /\ legError = {}
  /\ IsSuccess(dsNet.status)
  /\ nReasoning = 2
  /\ complete_reasoning = <<>>
  /\ Positions(produced, {"target"}) # {}
  /\ Last(produced) = DoneEvent

\* What shows that the OpenAI adapter was called: its stream not yet polled, a
\* provider answer that is not an Anthropic response, or an OpenAI error
OpenAIAdapterUsed ==
  \/ tgStream = "new"
  \/ /\ tgNet # NoAnswer
     /\ IsSome(tgNet.parsed) => "choices" \in DOMAIN Unwrap(tgNet.parsed)
  \/ response.kind = "error" /\ response.err.kind = "OpenAIError"
  \/ \E i \in Positions(produced, {"error"}) : produced[i].sse_event = "error"

\* What shows that the Anthropic adapter was called: an Anthropic response, an
\* Anthropic error, or a target stream that was open without a connect step
AnthropicAdapterUsed ==
  \/ IsSome(tgNet.parsed) /\ "content" \in DOMAIN Unwrap(tgNet.parsed)
  \/ response.kind = "error" /\ response.err.kind = "AnthropicError"
  \/ request.stream /\ tgStream \in {"open", "done"} /\ tgNet = NoAnswer

\* C32: the target chosen is "openai" exactly when X-Target-Model is "openai"
\* and "anthropic" for an absent header or another value; the token header a
\* request is refused for is the reasoning provider's or the chosen target's,
\* a request lacking the chosen target's token is refused, and the adapter
\* that is called is the chosen target's, in both modes.
C32_TargetSelection ==
  LET routed == IF headers.target_model = Some("openai") THEN "openai" ELSE "anthropic"
      token == IF routed = "openai" THEN "X-OpenAI-API-Token"
               ELSE "X-Anthropic-API-Token"
  IN /\ target_model \in {"", routed}
     /\ (response.kind = "error" /\ response.err.kind = "MissingHeader") =>
          response.err.message \in {<<"X-DeepSeek-API-Token">>, <<token>>}
     /\ (/\ pc # "received"
         /\ ValidateSystemPrompt(request)
         /\ "X-DeepSeek-API-Token" \in headers.tokens
         /\ token \notin headers.tokens) =>
          response = ErrorResponse(MissingHeader(token))
     /\ targetCalls > 0 =>
          /\ token \in headers.tokens
          /\ OpenAIAdapterUsed <=> routed = "openai"
          /\ AnthropicAdapterUsed <=> routed = "anthropic"

\* A request without X-Target-Model and without the OpenAI token header was
\* served by the Anthropic adapter.
C32_Witness ==
  /\ headers.target_model = None
  /\ "X-OpenAI-API-Token" \notin headers.tokens
  /\ targetCalls = 1
  /\ AnthropicAdapterUsed
  /\ \/ response.kind = "json"
     \/ Positions(produced, {"target"}) # {}

------------------------------------------------------------------------------
\* Properties of the requests the adapters build and of their headers

\* C33: every request the reasoning adapter has built has as its messages the
\* fixed System message followed by the messages it was given, in their order.
C33_PolicyMessageFirst ==
  (IsSome(builtRequest) /\ buildArgs.adapter = "deepseek") =>
    ValuesOf(Unwrap(builtRequest), "messages") =
      {JMessages(<<PolicyMessage>> \o buildArgs.messages)}

\* The same restricted to a config.body whose "system" entry, if any, is a
\* string or null: the requests that serde_json::from_value accepts.
C33_PolicyMessageFirstWhenParsed ==
  (/\ IsSome(builtRequest)
   /\ buildArgs.adapter = "deepseek"
   /\ IsSome(FromValue("deepseek", RequestValue("deepseek", buildArgs.messages,
                                                  buildArgs.stream, buildArgs.body)))) =>
    ValuesOf(Unwrap(builtRequest), "messages") =
      {JMessages(<<PolicyMessage>> \o buildArgs.messages)}

\* Some custom header of the call has a name or a value that is not valid
\* header text.
InvalidCustomHeader ==
  \E k \in DOMAIN buildArgs.headers :
    \/ HeaderNameFromBytes(k) = None
    \/ ~IsValidHeaderValue(buildArgs.headers[k])

\* C34 as stated: with an invalid custom header the call fails with BadRequest
\* and no request is built or sent; otherwise the headers hold Authorization:
\* Bearer <token>, Content-Type and Accept: application/json, and every custom
\* header.
C34_HeadersBuilt ==
  IsSome(builtHeaders) =>
    LET h == Unwrap(builtHeaders)
    IN IF InvalidCustomHeader
         THEN ~h.ok /\ h.err.kind = "BadRequest" /\ builtRequest = None
         ELSE /\ h.ok
              /\ IsSome(builtRequest)
              /\ h.val["authorization"] = <<"Bearer ">> \o buildArgs.api_token
              /\ h.val["content-type"] = <<"application/json">>
              /\ h.val["accept"] = <<"application/json">>
              /\ \A k \in DOMAIN buildArgs.headers :
                   h.val[Unwrap(HeaderNameFromBytes(k))] = buildArgs.headers[k]

\* C34: with an invalid custom header the call fails with BadRequest and no
\* request is built or sent; otherwise the headers hold every custom header,
\* and Authorization: Bearer <token>, Content-Type and Accept:
\* application/json each unless a custom header has that name, whose value
\* then replaces it.
C34_HeadersBuiltCustomWins ==
  IsSome(builtHeaders) =>
    LET h == Unwrap(builtHeaders)
        custom == {Unwrap(HeaderNameFromBytes(k)) : k \in DOMAIN buildArgs.headers}
    IN IF InvalidCustomHeader
         THEN ~h.ok /\ h.err.kind = "BadRequest" /\ builtRequest = None
         ELSE /\ h.ok
              /\ IsSome(builtRequest)
              /\ DOMAIN h.val = {"authorization", "content-type", "accept"} \cup custom
              /\ "authorization" \notin custom =>
                   h.val["authorization"] = <<"Bearer ">> \o buildArgs.api_token
              /\ "content-type" \notin custom =>
                   h.val["content-type"] = <<"application/json">>
              /\ "accept" \notin custom => h.val["accept"] = <<"application/json">>
              /\ \A k \in DOMAIN buildArgs.headers :
                   h.val[Unwrap(HeaderNameFromBytes(k))] = buildArgs.headers[k]

\* A call whose custom headers are a valid Authorization and an X-Trace with a
\* line break in its value has failed with BadRequest, without a request.
C34_Witness ==
  /\ IsSome(builtHeaders)
  /\ DOMAIN buildArgs.headers = {"Authorization", "X-Trace"}
  /\ buildArgs.headers["X-Trace"] = <<"v", "\n">>
  /\ IsValidHeaderValue(buildArgs.headers["Authorization"])
  /\ ~Unwrap(builtHeaders).ok
  /\ Unwrap(builtHeaders).err.kind = "BadRequest"
  /\ builtRequest = None

------------------------------------------------------------------------------
\* Properties of the target leg of chat_stream

\* The content delta of the first choice of a StreamResponse, empty when there
\* is no choice or no content
FirstContent(resp) ==
  IF resp.choices # <<>> /\ IsSome(resp.choices[1].content)
    THEN Unwrap(resp.choices[1].content)
    ELSE <<>>

\* The target increments that were sent, in order
TargetEvents == SelectSeq(produced, LAMBDA e : e.kind = "target")

RECURSIVE ConcatContent(_)
\* The content deltas of a sequence of StreamResponses, concatenated
ConcatContent(fed) ==
  IF fed = <<>> THEN <<>> ELSE FirstContent(Head(fed)) \o ConcatContent(Tail(fed))

RECURSIVE ConcatText(_)
\* The texts of a sequence of events, concatenated
ConcatText(events) ==
  IF events = <<>> THEN <<>> ELSE Head(events).text \o ConcatText(Tail(events))

\* C35: in the OpenAI target phase the target events are, in order, one event
\* per chunk whose first choice has a non-empty content delta, with that
\* delta as its text, and none for any other chunk; their concatenated text is
\* the concatenation of the upstream content deltas; and a chunk is read only
\* when the sends of the chunk before it have completed.
C35_OpenAIChunkToEvent ==
  /\ [](target_model = "openai" =>
          /\ TargetEvents =
               [i \in 1..Len(SelectSeq(targetFed, LAMBDA r : FirstContent(r) # <<>>)) |->
                  TargetEvent(FirstContent(
                    SelectSeq(targetFed, LAMBDA r : FirstContent(r) # <<>>)[i]))]
          /\ ConcatText(TargetEvents) = ConcatContent(targetFed))
  /\ [][targetFed' # targetFed =>
          /\ outbox = <<>>
          /\ Len(targetFed') = Len(targetFed) + 1
          /\ produced' \in {produced,
                            Append(produced,
                                   TargetEvent(FirstContent(targetFed'[Len(targetFed')])))}]_vars

\* Two chunks were read in the OpenAI target phase, one whose first choice has
\* no content and one with "u"; one target event was sent, and done after it.
C35_Witness ==
  /\ target_model = "openai"
  /\ Len(targetFed) = 2
  /\ targetFed[1].choices = <<[content |-> None]>>
  /\ FirstContent(targetFed[2]) = <<"u">>
  /\ TargetEvents = <<TargetEvent(<<"u">>)>>
  /\ Last(produced) = DoneEvent

------------------------------------------------------------------------------
\* handlers.rs handle_openai_chat: the OpenAI-compatible entry point.  A header
\* map is a function from header names to values, a value is text.

\* config.rs TokenConfig
TokenConfig(deepseek_token, openai_token, anthropic_token) ==
  [deepseek_token |-> deepseek_token, openai_token |-> openai_token,
   anthropic_token |-> anthropic_token]

\* config.rs ModelMapping
ModelMapping(deepseek_model, target_model_, parameters) ==
  [deepseek_model |-> deepseek_model, target_model |-> target_model_,
   parameters |-> parameters]

\* The parameters a model mapping of the configuration may hold
MappingParameters ==
  { <<>>,
    [k \in {"temperature"} |-> JNum("0.2")],
    [k \in {"temperature", "max_tokens", "top_p"} |->
       CASE k = "temperature" -> JNum("0.2")
         [] k = "max_tokens" -> JNum("64")
         [] OTHER -> JNum("0.5")] }

\* state.config: one caller token and one model are mapped
Configs ==
  { [auth |-> [default_tokens |-> TokenConfig(<<"d0">>, <<"o0">>, <<"a0">>),
               token_mappings |-> [k \in {<<"k1">>} |->
                                     TokenConfig(<<"d1">>, <<"o1">>, <<"a1">>)]],
     models |-> [default_deepseek |-> "dm0",
                 default_openai |-> "om0",
                 model_mappings |-> [m \in {"m1"} |-> ModelMapping("dm1", "om1", params)]],
     endpoints |-> [deepseek |-> <<"ds-url">>, openai |-> <<"oa-url">>]] :
    params \in MappingParameters }

\* The headers a caller sends: Authorization (with and without the Bearer
\* prefix, mapped and unmapped) and X-Target-Model, each or none
CallerHeaders ==
  { MapMerge(a, t) :
      a \in {<<>>} \cup {[n \in {"Authorization"} |-> v] :
                           v \in {<<"Bearer ", "k1">>, <<"Bearer ", "zz">>, <<"k1">>}},
      t \in {<<>>} \cup {[n \in {"X-Target-Model"} |-> v] :
                           v \in {<<"anthropic">>, <<"openai">>}} }

\* OpenAICompatRequest: model, messages, stream and the flattened extra fields
OpenAICompatRequests ==
  [model : {"m1", "zz"},
   messages : {MessagesOf(<<"user">>)},
   stream : BOOLEAN,
   extra : {[k \in keys |-> CallerValue(k)] :
              keys \in SUBSET {"temperature", "max_tokens", "top_p"}}]

\* get_auth_info: the Authorization value without its "Bearer " prefix, ""
\* when the header is absent or has no such prefix
GetAuthInfo(hdrs) ==
  IF /\ "Authorization" \in DOMAIN hdrs
     /\ hdrs["Authorization"] # <<>>
     /\ Head(hdrs["Authorization"]) = "Bearer "
    THEN Tail(hdrs["Authorization"])
    ELSE <<>>

\* Built headers that keep the caller's X-Target-Model.
BuildInternalHeadersKeepTarget(original_headers, token_config, endpoints) ==
  LET inserted ==
        [n \in {"X-DeepSeek-API-Token", "X-OpenAI-API-Token", "X-Anthropic-API-Token",
                "X-DeepSeek-Endpoint-URL", "X-OpenAI-Endpoint-URL"} |->
           CASE n = "X-DeepSeek-API-Token" -> <<"Bearer ">> \o token_config.deepseek_token
             [] n = "X-OpenAI-API-Token" -> token_config.openai_token
             [] n = "X-Anthropic-API-Token" -> token_config.anthropic_token
             [] n = "X-DeepSeek-Endpoint-URL" -> endpoints.deepseek
             [] OTHER -> endpoints.openai]
  IN MapMerge(original_headers, inserted)

\* build_internal_headers: the caller's headers with the three token headers,
\* X-Target-Model: openai and the two endpoint headers inserted
BuildInternalHeaders(original_headers, token_config, endpoints) ==
  LET inserted ==
        [n \in {"X-DeepSeek-API-Token", "X-OpenAI-API-Token", "X-Anthropic-API-Token",
                "X-Target-Model", "X-DeepSeek-Endpoint-URL", "X-OpenAI-Endpoint-URL"} |->
           CASE n = "X-DeepSeek-API-Token" -> <<"Bearer ">> \o token_config.deepseek_token
             [] n = "X-OpenAI-API-Token" -> token_config.openai_token
             [] n = "X-Anthropic-API-Token" -> token_config.anthropic_token
             [] n = "X-Target-Model" -> <<"openai">>
             [] n = "X-DeepSeek-Endpoint-URL" -> endpoints.deepseek
             [] OTHER -> endpoints.openai]
  IN MapMerge(original_headers, inserted)

\* The ApiConfig of a provider in the internal request
InternalConfig(token, model, model_params) ==
  [headers |-> [n \in {"Authorization"} |-> <<"Bearer ">> \o token],
   body |-> JObject([k \in {"model", "temperature", "max_tokens"} |->
                       CASE k = "model" -> JStr(model)
                         [] k = "temperature" ->
                              IF k \in DOMAIN model_params THEN model_params[k]
                              ELSE JNum("0.7")
                         [] OTHER ->
                              IF k \in DOMAIN model_params THEN model_params[k]
                              ELSE JNum("4096")])]

\* handle_openai_chat up to its call of chat or chat_stream: the token set, the
\* model mapping, the merged parameters, the internal request and new_headers
InternalCall(config, hdrs, openai_request) ==
  LET auth_token == GetAuthInfo(hdrs)
      token_config ==
        IF auth_token \in DOMAIN config.auth.token_mappings
          THEN config.auth.token_mappings[auth_token]
          ELSE config.auth.default_tokens
      model_mapping ==
        IF openai_request.model \in DOMAIN config.models.model_mappings
          THEN config.models.model_mappings[openai_request.model]
          ELSE ModelMapping(config.models.default_deepseek, config.models.default_openai,
                            <<>>)
      model_params == MapMerge(model_mapping.parameters, openai_request.extra)
  IN [internal_request |->
        [stream |-> openai_request.stream,
         system |-> None,
         messages |-> openai_request.messages,
         deepseek_config |-> InternalConfig(token_config.deepseek_token,
                                            model_mapping.deepseek_model, model_params),
         openai_config |-> InternalConfig(token_config.openai_token,
                                          model_mapping.target_model, model_params)],
      new_headers |-> BuildInternalHeaders(hdrs, token_config, config.endpoints)]

\* The header map as the handlers read it: the token headers present and
\* X-Target-Model
HandlerHeaders(hdrs) ==
  [tokens |-> DOMAIN hdrs \cap TokenHeaders,
   target_model |-> IF "X-Target-Model" \in DOMAIN hdrs
                      THEN Some(hdrs["X-Target-Model"][1]) ELSE None]

InitCompat ==
  /\ feed = <<>>
  /\ NoDecoding
  /\ buildArgs = <<>>
  /\ builtRequest = <<>>
  /\ builtHeaders = <<>>
  /\ compatCall \in [config : Configs, headers : CallerHeaders,
                     openai_request : OpenAICompatRequests]
  /\ internal = None
  /\ Fresh([stream |-> compatCall.openai_request.stream, system |-> None,
            messages |-> compatCall.openai_request.messages],
           HandlerHeaders(compatCall.headers))

\* handle_openai_chat builds the internal request and the new headers; chat or
\* chat_stream is then entered with them.
HandleOpenAIChat ==
  /\ internal = None
  /\ LET call == InternalCall(compatCall.config, compatCall.headers,
                              compatCall.openai_request)
     IN /\ internal' = Some(call)
        /\ request' = [stream |-> call.internal_request.stream,
                       system |-> call.internal_request.system,
                       messages |-> call.internal_request.messages]
        /\ headers' = HandlerHeaders(call.new_headers)
  /\ UNCHANGED <<decodeVars, buildArgs, builtRequest, builtHeaders, compatCall, pc,
                 response, messages, target_model, thinking_content, target_messages,
                 dsNet, tgNet, dsCalls, targetCalls, taskVars, channelVars, extractVars>>

\* chat(State(state), new_headers, Json(internal_request))
CompatChat ==
  /\ IsSome(internal)
  /\ ChatEntry

\* chat_stream(State(state), new_headers, Json(internal_request))
CompatChatStream ==
  /\ IsSome(internal)
  /\ ChatStreamEntry

CompatNext ==
  \/ HandleOpenAIChat
  \/ CompatChat
  \/ CompatChatStream

SpecCompat == InitCompat /\ [][CompatNext]_vars

\* C36: after handle_openai_chat has entered chat or chat_stream, the provider
\* tokens are those of the token set mapped to the caller's bearer token, or
\* of the default set when there is no such mapping (no caller is refused);
\* the models are the mapping's pair for the requested model, or the default
\* pair; temperature and max_tokens are the caller's extra value when given,
\* else the mapping's parameter, else the default; and the handler has chosen
\* the OpenAI target whatever X-Target-Model the caller sent.
C36_CompatResolution ==
  (IsSome(internal) /\ pc # "received") =>
    LET call == Unwrap(internal)
        req == compatCall.openai_request
        mappedToken == /\ "Authorization" \in DOMAIN compatCall.headers
                       /\ compatCall.headers["Authorization"] = <<"Bearer ", "k1">>
        mappedModel == req.model = "m1"
        tokens == IF mappedToken THEN TokenConfig(<<"d1">>, <<"o1">>, <<"a1">>)
                  ELSE TokenConfig(<<"d0">>, <<"o0">>, <<"a0">>)
        params == compatCall.config.models.model_mappings["m1"].parameters
        expected(k, default) ==
          IF k \in DOMAIN req.extra THEN req.extra[k]
          ELSE IF mappedModel /\ k \in DOMAIN params THEN params[k]
          ELSE default
        ds == call.internal_request.deepseek_config
        oa == call.internal_request.openai_config
    IN /\ response.kind # "error"
       /\ target_model = "openai"
       /\ \A r \in ClientBuildHeaders(call.new_headers["X-DeepSeek-API-Token"],
                                      ds.headers) :
            r.ok /\ r.val["authorization"] = <<"Bearer ">> \o tokens.deepseek_token
       /\ \A r \in ClientBuildHeaders(call.new_headers["X-OpenAI-API-Token"], oa.headers) :
            r.ok /\ r.val["authorization"] = <<"Bearer ">> \o tokens.openai_token
       /\ ds.body.map["model"] = JStr(IF mappedModel THEN "dm1" ELSE "dm0")
       /\ oa.body.map["model"] = JStr(IF mappedModel THEN "om1" ELSE "om0")
       /\ \A c \in {ds, oa} :
            /\ c.body.map["temperature"] = expected("temperature", JNum("0.7"))
            /\ c.body.map["max_tokens"] = expected("max_tokens", JNum("4096"))

\* A caller with an unmapped bearer token and X-Target-Model: anthropic asked
\* for the mapped model with its own temperature, streaming: chat_stream was
\* entered and answered with the event stream, with the OpenAI target.
C36_Witness ==
  /\ IsSome(internal)
  /\ compatCall.headers = MapMerge([n \in {"Authorization"} |-> <<"Bearer ", "zz">>],
                                   [n \in {"X-Target-Model"} |-> <<"anthropic">>])
  /\ compatCall.openai_request.model = "m1"
  /\ DOMAIN compatCall.openai_request.extra = {"temperature"}
  /\ "temperature" \in DOMAIN compatCall.config.models.model_mappings["m1"].parameters
  /\ compatCall.openai_request.stream
  /\ response = SseResponse
  /\ target_model = "openai"
  /\ Unwrap(internal).internal_request.openai_config.body.map["temperature"] = JNum("0")

------------------------------------------------------------------------------
\* Properties of the frame decoders across chunk boundaries

RECURSIVE WireBytes(_)
\* The bytes of a sequence of network chunks, concatenated
WireBytes(chunks) ==
  IF chunks = <<>> THEN <<>> ELSE Head(chunks) \o WireBytes(Tail(chunks))

\* What a decoder yields when the same bytes arrive as one network chunk
YieldedFromOneChunk(kind, chunks) ==
  DecodeStep(kind, NewDecoder, WireBytes(chunks)).yielded

\* A run read the whole byte stream, which did not fail and has no [DONE]
ReadWholeStreamWithoutSentinel(i) ==
  /\ dec[i].state = "ended"
  /\ dec[i].pos = Len(netChunks)
  /\ netSetup = "ok"
  /\ ~netFail
  /\ ~Contains(WireBytes(netChunks), DoneText)

\* C37: for a byte stream without [DONE], a decoder that has read the stream
\* to its end has yielded the sequence it yields when the same bytes arrive as
\* one chunk, however the bytes were cut into chunks.
C37_ChunkingIndependent ==
  \A i \in 1..Len(dec) :
    ReadWholeStreamWithoutSentinel(i) =>
      dec[i].yielded = YieldedFromOneChunk(decoder, netChunks)

\* The same for the byte streams in which no chunk boundary falls inside a
\* character of more than one byte.
C37_ChunkingIndependentWholeChars ==
  \A i \in 1..Len(dec) :
    (/\ ReadWholeStreamWithoutSentinel(i)
     /\ DecodedText(netChunks) = Utf8Lossy(WireBytes(netChunks))) =>
      dec[i].yielded = YieldedFromOneChunk(decoder, netChunks)

RECURSIVE TakeBytes(_, _)
\* The first n bytes of a sequence of network chunks, cut where the chunks are
TakeBytes(chunks, n) ==
  IF n = 0 \/ chunks = <<>> THEN <<>>
  ELSE IF Len(Head(chunks)) <= n
    THEN <<Head(chunks)>> \o TakeBytes(Tail(chunks), n - Len(Head(chunks)))
  ELSE <<SubSeq(Head(chunks), 1, n)>>

\* The network chunks without the bytes after the last delimiter
WithoutTail(chunks) ==
  TakeBytes(chunks, Len(WireBytes(chunks)) - Len(AfterLastDelimiter(WireBytes(chunks))))

RECURSIVE RunDecoder(_, _, _)
\* A decoder's record after the network chunks
RunDecoder(kind, d, chunks) ==
  IF chunks = <<>> THEN d
  ELSE RunDecoder(kind, DecodeStep(kind, d, Head(chunks)), Tail(chunks))

\* C38: a decoder that has read the stream to its end has yielded exactly what
\* it yields on the stream without the bytes after the last delimiter, and no
\* error element unless the byte stream itself failed: the undelimited bytes
\* give no chunk and no error.
C38_UndelimitedTailDiscarded ==
  \A i \in 1..Len(dec) :
    (dec[i].state = "ended" /\ dec[i].pos = Len(netChunks) /\ netSetup = "ok") =>
      LET delimited == RunDecoder(decoder, NewDecoder, WithoutTail(netChunks)).yielded
      IN IF netFail
           THEN dec[i].yielded =
                  Append(delimited, Err(StreamError(AdapterError(decoder))))
           ELSE dec[i].yielded = delimited

\* The stream "data: 1", delimiter, "data: 2" without a delimiter came in
\* several chunks and ended: one chunk was yielded and "data: 2" was left.
C38_Witness ==
  /\ dec # <<>>
  /\ dec[1].state = "ended"
  /\ ~netFail
  /\ Len(netChunks) > 1
  /\ WireBytes(netChunks) = Frame(<<"1">>) \o DataPrefix \o <<"2">>
  /\ Len(dec[1].yielded) = 1
  /\ dec[1].yielded[1].ok
  /\ dec[1].data = DataPrefix \o <<"2">>

------------------------------------------------------------------------------
\* Properties relating what the reasoning leg forwards and what it accumulates

\* C39: when the reasoning leg of chat_stream has ended without error, the
\* Assistant message appended for the target holds, between its thinking
\* markers, the concatenation of the reasoning increments that were sent to
\* the client.
C39_ForwardedEqualsHandedOver ==
  (request.stream /\ target_messages # <<>> /\ "reasoning" \notin legError) =>
    Last(target_messages) =
      Message("assistant",
              ThinkingOpen \o NL \o ConcatText(ReasoningEvents) \o NL \o ThinkingClose)

\* The chunks of StreamChunks with a choice whose fingerprint is not
\* "fp_ollama"
OtherChunks ==
  {raw \in StreamChunks : raw.choices # <<>> /\ raw.system_fingerprint # "fp_ollama"}

\* The text of an Option<String> field, empty when it is absent
TextOrEmpty(o) == IF IsSome(o) THEN Unwrap(o) ELSE <<>>

\* The dedicated reasoning fields of the first choice's delta and message
DeltaReasoning(raw) ==
  IF IsSome(raw.choices[1].delta)
    THEN TextOrEmpty(Unwrap(raw.choices[1].delta).reasoning_content) ELSE <<>>

MessageReasoning(raw) ==
  IF IsSome(raw.choices[1].message)
    THEN TextOrEmpty(Unwrap(raw.choices[1].message).reasoning_content) ELSE <<>>

\* The text z stands in the content of the chunk that is not Ollama's, and
\* nowhere else
HasOtherContent(text) == \E i \in 1..Len(text) : text[i] = "z"

\* C40: the content of a chunk whose fingerprint is not "fp_ollama" never
\* reaches the pending buffer, the accumulator, an event or the target
\* messages; the step on such a chunk leaves the pending buffer as it is,
\* appends the chunk's dedicated reasoning fields to the accumulator and
\* sends the delta's reasoning field, if not empty, as its only event.
C40_ScanOnlyOllama ==
  /\ [](/\ ~HasOtherContent(current_chunk)
        /\ ~HasOtherContent(complete_reasoning)
        /\ \A i \in 1..Len(produced) : ~HasOtherContent(produced[i].text)
        /\ \A i \in 1..Len(target_messages) : ~HasOtherContent(target_messages[i].content))
  /\ [][(nReasoning' = nReasoning + 1 /\ fedText' = fedText /\ produced' # produced) =>
          \E raw \in OtherChunks :
            /\ current_chunk' = current_chunk
            /\ complete_reasoning' =
                 complete_reasoning \o DeltaReasoning(raw) \o MessageReasoning(raw)
            /\ produced' = Append(produced, ReasoningEvent(DeltaReasoning(raw)))]_vars

\* Two chunks that are not Ollama's, each with marked content and the reasoning
\* field r1, were handled and the reasoning leg ended: two events r1, the
\* accumulator r1 r1, nothing pending.
C40_Witness ==
  /\ nReasoning = 2
  /\ fedText = <<>>
  /\ taskPc = "target"
  /\ current_chunk = <<>>
  /\ complete_reasoning = <<"r1", "r1">>
  /\ ReasoningEvents = <<ReasoningEvent(<<"r1">>), ReasoningEvent(<<"r1">>)>>

====
